---- MODULE Spec2Model ----
(***************************************************************************)
(* Room session coordinator of the health chat backend: the room store     *)
(* (services/room.ts), the message store (services/message.ts) and the     *)
(* socket event handlers (services/websocket.ts).                          *)
(*                                                                         *)
(* Every async handler is a task: the action that starts it runs the       *)
(* handler's synchronous prefix up to its first await, and one action per  *)
(* later await resumes it.  Handlers of one socket are not serialised by   *)
(* socket.io, so several tasks of one socket may be in flight.             *)
(***************************************************************************)
EXTENDS Integers, Sequences, FiniteSets, TLC

\* ---------------------------------------------------------------- bounds
MaxCalls == 3
MaxEvents == 4
MaxTasks == 2
MaxLimit == 2
MaxOffset == 3
MaxChunks == 2
MaxLen == 4
MaxChunkSize == 3
MaxStreams == 2

\* ------------------------------------------------------------ value sets
NULL == "null"
Sockets == {"s1", "s2", "s3"}
Doctors == {"D1", "D2"}
RoomIds == {"R1"}
UnknownRoom == "RX"
Languages == {"en", "es"}
DefaultLanguage == "en"

\* Texts are sequences of words, a word standing for a run of UTF-16 code
\* units; NullText stands for null / undefined.  LoneSurrogate is a
\* surrogate code unit without its pair, ReplacementChar is U+FFFD.
NullText == <<"null">>
Hello == <<"hello">>
LoneSurrogate == "U+D800"
ReplacementChar == "U+FFFD"
Unpaired == <<"hello", LoneSurrogate>>
Blank == <<>>
Whitespace == <<" ">>
Truthy(text) == text # NullText /\ text # <<>>

\* A language is a string: null, undefined and "" are falsy.
TruthyString(x) == x # NULL /\ x # ""

\* String.prototype.trim: whitespace at both ends is removed.
RECURSIVE trimStart(_)
trimStart(text) ==
    IF Len(text) > 0 /\ Head(text) = " " THEN trimStart(Tail(text)) ELSE text

RECURSIVE trimEnd(_)
trimEnd(text) ==
    IF Len(text) > 0 /\ text[Len(text)] = " "
    THEN trimEnd(SubSeq(text, 1, Len(text) - 1))
    ELSE text

trim(text) == trimEnd(trimStart(text))

\* The bearer token each socket carries in its handshake.
NoToken == [kind |-> "none", id |-> NULL]
DoctorToken(d) == [kind |-> "doctor", id |-> d]
InvalidToken == [kind |-> "invalid", id |-> NULL]
ExpiredToken == [kind |-> "expired", id |-> NULL]
UserToken(u) == [kind |-> "user", id |-> u]
Tokens == {NoToken, InvalidToken, ExpiredToken, UserToken("U1")}
              \cup {DoctorToken(d) : d \in Doctors}
HandshakeToken ==
    [s \in Sockets |->
        CASE s = "s1" -> NoToken
          [] s = "s2" -> DoctorToken("D1")
          [] OTHER -> DoctorToken("D2")]

VARIABLES
    rooms,                  \* rooms table: room id -> [doctorId, cipherKey]
    messages,               \* messages table, in insertion order
    sessions,               \* Map socketId -> Session
    roomParticipants,       \* Map roomId -> Set of socketIds
    offlineMessageQueues,   \* Map roomId -> QueuedMessage[]
    adapterRooms,           \* socket.io rooms each socket has joined
    connected,              \* sockets whose transport is open
    audioBuffer,            \* socket.data.audioBuffer
    handshake,              \* socket.handshake.auth.token of each socket
    inbox,                  \* events emitted to each socket, in order
    tasks,                  \* handlers and store calls suspended at an await
    nextId,                 \* number of events and calls accepted so far
    callLog,                \* finished room-store calls with their outcome
    holders,                \* per room: doctors that claimed and have not released
    commits,                \* per message: sender, peers in session at commit, done
    nextJoinGot             \* (message, socket, count) at first join after enqueue

vars == <<rooms, messages, sessions, roomParticipants, offlineMessageQueues,
          adapterRooms, connected, audioBuffer, handshake, inbox, tasks, nextId,
          callLog, holders, commits, nextJoinGot>>

storeVars == <<rooms, callLog, holders, tasks, nextId>>
socketVars == <<messages, sessions, roomParticipants, offlineMessageQueues,
                adapterRooms, connected, audioBuffer, handshake, inbox,
                commits, nextJoinGot>>

\* ------------------------------------------------------------ room store
CipherKeyOf(roomId) == <<"key", roomId>>

NoRoom == [found |-> FALSE, doctorId |-> NULL, cipherKey |-> <<"key", NULL>>]

getRoom(db, roomId) ==
    IF roomId \in DOMAIN db
    THEN [found |-> TRUE, doctorId |-> db[roomId].doctorId,
          cipherKey |-> db[roomId].cipherKey]
    ELSE NoRoom

\* The ids the database can give a new room: those no row has yet.
FreshRoomIds == {UnknownRoom}

\* INSERT INTO rooms (cipher_key): a row with a fresh key and no doctor.
createRoom(db, roomId) ==
    [x \in DOMAIN db \cup {roomId} |->
        IF x = roomId
        THEN [doctorId |-> NULL, cipherKey |-> CipherKeyOf(roomId)]
        ELSE db[x]]

joinRoomAsDoctorCheckStrict(room, doctorId) ==
    IF ~room.found THEN "Room not found"
    ELSE IF TruthyString(room.doctorId)
         THEN "Room already has a doctor assigned"
    ELSE "ok"

joinRoomAsDoctorCheck(room, doctorId) ==
    IF ~room.found THEN "Room not found"
    ELSE IF TruthyString(room.doctorId) /\ room.doctorId # doctorId
         THEN "Room already has a doctor assigned"
    ELSE "ok"

joinRoomAsDoctorUpdate(db, roomId, doctorId) ==
    IF roomId \in DOMAIN db
    THEN [db EXCEPT ![roomId].doctorId = doctorId]
    ELSE db

leaveRoomCheckInverted(room, role, doctorId) ==
    IF ~room.found THEN "Room not found"
    ELSE IF role = "doctor" /\ TruthyString(doctorId)
         THEN IF room.doctorId = doctorId THEN "Doctor not in this room"
              ELSE "update"
    ELSE "ok"

leaveRoomCheck(room, role, doctorId) ==
    IF ~room.found THEN "Room not found"
    ELSE IF role = "doctor" /\ TruthyString(doctorId)
         THEN IF room.doctorId # doctorId THEN "Doctor not in this room"
              ELSE "update"
    ELSE "ok"

leaveRoomUpdateKeep(db, roomId) == db

leaveRoomUpdate(db, roomId) ==
    IF roomId \in DOMAIN db
    THEN [db EXCEPT ![roomId].doctorId = NULL]
    ELSE db

\* exchangeKeys after its getRoom returned room: the key, or the throw of
\* 'Room not found'.
exchangeKeys(room) ==
    IF room.found
    THEN [ok |-> TRUE, cipherKey |-> room.cipherKey]
    ELSE [ok |-> FALSE, cipherKey |-> <<"key", NULL>>]

\* ----------------------------------------------------------------- tasks
NoMsg == [id |-> 0, roomId |-> NULL, senderRole |-> NULL, senderId |-> NULL,
          content |-> <<>>, translatedContent |-> <<>>, language |-> NULL,
          targetLanguage |-> NULL, timestamp |-> 0, isAudio |-> FALSE]

BaseTask == [id |-> 0, kind |-> NULL, pc |-> NULL, sock |-> NULL,
             roomId |-> NULL, role |-> NULL, doctorId |-> NULL,
             seen |-> NoRoom, room |-> NoRoom, content |-> <<>>, language |-> NULL,
             translatedContent |-> <<>>, targetLanguage |-> NULL,
             translationError |-> FALSE, isAudio |-> FALSE,
             cipherKey |-> <<"key", NULL>>, peers |-> <<>>, msg |-> NoMsg,
             messageId |-> NULL, index |-> 0, total |-> 0,
             chunkSize |-> 0, frames |-> <<>>]

StoreCall(id, kind, roomId, role, doctorId, seen) ==
    [BaseTask EXCEPT !.id = id, !.kind = kind, !.pc = "update",
                     !.roomId = roomId, !.role = role,
                     !.doctorId = doctorId, !.seen = seen]

LogEntry(kind, roomId, role, doctorId, result, pre, post) ==
    [kind |-> kind, roomId |-> roomId, role |-> role, doctorId |-> doctorId,
     result |-> result, pre |-> pre, post |-> post]

\* createRoom (POST /api/rooms): its INSERT commits and the row is returned.
CreateRoom(limit) ==
    /\ Cardinality(tasks) < limit
    /\ \E roomId \in FreshRoomIds \ DOMAIN rooms :
          /\ rooms' = createRoom(rooms, roomId)
          /\ holders' = [x \in DOMAIN holders \cup {roomId} |->
                            IF x = roomId THEN {} ELSE holders[x]]
    /\ UNCHANGED <<tasks, nextId, callLog>>

\* joinRoomAsDoctor up to its UPDATE: SELECT the room, check the slot.
JoinRoomAsDoctorRead(limit, maxId, roomId, doctorId) ==
    /\ Cardinality(tasks) < limit
    /\ nextId < maxId
    /\ nextId' = nextId + 1
    /\ LET room == getRoom(rooms, roomId)
           res == joinRoomAsDoctorCheck(room, doctorId)
       IN IF res = "ok"
          THEN /\ tasks' = tasks \cup
                     {StoreCall(nextId + 1, "claim", roomId, "doctor", doctorId, room)}
               /\ callLog' = callLog
          ELSE /\ tasks' = tasks
               /\ callLog' = Append(callLog,
                     LogEntry("claim", roomId, "doctor", doctorId, res, room, room))
    /\ UNCHANGED <<rooms, holders>>

\* joinRoomAsDoctor: the UPDATE rooms SET doctor_id = $1 statement and return.
JoinRoomAsDoctorWrite(t) ==
    /\ t \in tasks /\ t.kind = "claim" /\ t.pc = "update"
    /\ rooms' = joinRoomAsDoctorUpdate(rooms, t.roomId, t.doctorId)
    /\ tasks' = tasks \ {t}
    /\ callLog' = Append(callLog,
          LogEntry("claim", t.roomId, "doctor", t.doctorId, "ok", t.seen,
                   getRoom(rooms', t.roomId)))
    /\ holders' = [holders EXCEPT ![t.roomId] = @ \cup {t.doctorId}]
    /\ UNCHANGED nextId

\* leaveRoom up to its UPDATE: SELECT the room, check the caller holds the slot.
LeaveRoomRead(limit, maxId, roomId, role, doctorId) ==
    /\ Cardinality(tasks) < limit
    /\ nextId < maxId
    /\ nextId' = nextId + 1
    /\ LET room == getRoom(rooms, roomId)
           res == leaveRoomCheck(room, role, doctorId)
       IN IF res = "update"
          THEN /\ tasks' = tasks \cup
                     {StoreCall(nextId + 1, "release", roomId, role, doctorId, room)}
               /\ callLog' = callLog
          ELSE /\ tasks' = tasks
               /\ callLog' = Append(callLog,
                     LogEntry("release", roomId, role, doctorId, res, room, room))
    /\ UNCHANGED <<rooms, holders>>

\* leaveRoom: the UPDATE rooms SET doctor_id = NULL statement and return.
LeaveRoomWrite(t) ==
    /\ t \in tasks /\ t.kind = "release" /\ t.pc = "update"
    /\ rooms' = leaveRoomUpdate(rooms, t.roomId)
    /\ tasks' = tasks \ {t}
    /\ callLog' = Append(callLog,
          LogEntry("release", t.roomId, t.role, t.doctorId, "ok", t.seen,
                   getRoom(rooms', t.roomId)))
    /\ holders' = [holders EXCEPT ![t.roomId] = @ \ {t.doctorId}]
    /\ UNCHANGED nextId

\* ------------------------------------------------------ session registry
EmptyMap == [x \in {} |-> NULL]

Range(seq) == {seq[i] : i \in 1..Len(seq)}

MapPut(map, key, value) ==
    [x \in DOMAIN map \cup {key} |-> IF x = key THEN value ELSE map[x]]

MapDelete(map, key) == [x \in DOMAIN map \ {key} |-> map[x]]

Session(socketId, roomId, role, doctorId, language) ==
    [socketId |-> socketId, roomId |-> roomId, role |-> role,
     doctorId |-> doctorId, language |-> language]

getSession(sess, socketId) == socketId \in DOMAIN sess

\* A JavaScript Set keeps insertion order: a sequence without repetitions.
SetAdd(seq, x) == IF x \in Range(seq) THEN seq ELSE Append(seq, x)

SetDelete(seq, x) == SelectSeq(seq, LAMBDA y : y # x)

createSessionParticipants(parts, session) ==
    MapPut(parts, session.roomId,
           SetAdd(IF session.roomId \in DOMAIN parts
                  THEN parts[session.roomId] ELSE <<>>,
                  session.socketId))

createSessionSessions(sess, session) == MapPut(sess, session.socketId, session)

deleteSessionParticipants(sess, parts, socketId) ==
    IF socketId \in DOMAIN sess /\ sess[socketId].roomId \in DOMAIN parts
    THEN LET roomId == sess[socketId].roomId
             left == SetDelete(parts[roomId], socketId)
         IN IF Len(left) = 0 THEN MapDelete(parts, roomId)
            ELSE MapPut(parts, roomId, left)
    ELSE parts

deleteSessionSessions(sess, socketId) == MapDelete(sess, socketId)

\* Sessions of the sockets listed for the room, in the set's order; the
\* session's own roomId is not compared.
getRoomSessions(sess, parts, roomId) ==
    IF roomId \notin DOMAIN parts THEN <<>>
    ELSE LET ids == SelectSeq(parts[roomId], LAMBDA x : x \in DOMAIN sess)
         IN [i \in 1..Len(ids) |-> sess[ids[i]]]

areBothParticipantsPresent(sess, parts, roomId) ==
    LET roomSessions == getRoomSessions(sess, parts, roomId)
    IN /\ \E i \in 1..Len(roomSessions) : roomSessions[i].role = "patient"
       /\ \E i \in 1..Len(roomSessions) : roomSessions[i].role = "doctor"

\* validateToken throws for a missing, malformed or expired token; the
\* handshake check turns the throw into null.
authenticateSocket(token) ==
    IF token.kind \in {"doctor", "user"}
    THEN [ok |-> TRUE, type |-> token.kind, id |-> token.id]
    ELSE [ok |-> FALSE, type |-> NULL, id |-> NULL]

\* --------------------------------------------------------- socket.io emits
\* socket.emit: a packet to a closed transport is dropped.
Emit(ib, socketId, event) ==
    IF socketId \in connected
    THEN [ib EXCEPT ![socketId] = Append(@, event)]
    ELSE ib

Members(adapter, roomId) == {x \in Sockets : roomId \in adapter[x]}

\* socket.to(room).emit and io.to(room).emit
EmitTo(ib, targets, event) ==
    [x \in Sockets |-> IF x \in targets THEN Append(ib[x], event) ELSE ib[x]]

EmitAllFront(ib, targets, events) ==
    [x \in Sockets |-> IF x \in targets THEN events \o ib[x] ELSE ib[x]]

EmitAll(ib, targets, events) ==
    [x \in Sockets |-> IF x \in targets THEN ib[x] \o events ELSE ib[x]]

\* ----------------------------------------------------------- message store
\* cipher.update(message, 'utf8', 'hex'): the string is written as UTF-8
\* bytes, and a surrogate without its pair is written as the bytes of
\* U+FFFD.
encodeUtf8(text) ==
    [i \in 1..Len(text) |->
        [utf8 |-> IF text[i] = LoneSurrogate THEN ReplacementChar ELSE text[i]]]

\* decipher.update(encrypted, 'hex', 'utf8'): the bytes are read as UTF-8.
decodeUtf8(bytes) == [i \in 1..Len(bytes) |-> bytes[i].utf8]

\* "iv:ciphertext" in hex: AES-256-CBC of the UTF-8 bytes under key and a
\* fresh iv.  The block cipher and the hex encoding are one-to-one on
\* bytes, so the body is the bytes together with the key and iv that open it.
encryptMessage(text, key, iv) ==
    [iv |-> iv, key |-> key, data |-> encodeUtf8(text)]

NullBody == [iv |-> 0, key |-> <<"key", NULL>>, data |-> <<>>]

\* A stored body is "iv:data"; a string without the one separator has no
\* iv field.
WellFormed(body) == {"iv", "data"} \subseteq DOMAIN body

\* What a call of decryptMessage ends with: the text it returns, or the
\* Error it throws.
DecryptReturns(text) == [ok |-> TRUE, text |-> text, error |-> NULL]

DecryptThrows(message) == [ok |-> FALSE, text |-> NullText, error |-> message]

\* The outcomes of decryptMessage. Under a key other than the one the body
\* was encrypted with, decipher.final() throws "bad decrypt" unless the
\* last block happens to end in valid padding, and then garbage is returned.
decryptMessage(body, key) ==
    IF ~WellFormed(body)
    THEN {DecryptThrows("Invalid encrypted message format")}
    ELSE IF body.key = key THEN {DecryptReturns(decodeUtf8(body.data))}
    ELSE {DecryptThrows("bad decrypt"), DecryptReturns(<<"garbled">>)}

sendMessageValidateNone(role, senderId) == "ok"

sendMessageValidate(role, senderId) ==
    IF role = "patient" /\ senderId # NULL
    THEN "Patient messages must have null senderId for anonymity"
    ELSE IF role = "doctor" /\ ~TruthyString(senderId)
    THEN "Doctor messages must have a valid senderId"
    ELSE "ok"

\* DEFAULT NOW() when the clock still reads the microsecond of the newest
\* row: the new row shares its timestamp.
SameInstant(msgs) ==
    IF Len(msgs) = 0 THEN 1 ELSE msgs[Len(msgs)].timestamp

\* DEFAULT NOW() after the clock has advanced past the newest row.
Later(msgs) ==
    IF Len(msgs) = 0 THEN 1 ELSE msgs[Len(msgs)].timestamp + 1

\* The row INSERT INTO messages stores.  The database assigns the id, a
\* fresh UUID of which only equality is used, and the timestamp now.
MessageRow(msgs, p, now) ==
    [id |-> Len(msgs) + 1, roomId |-> p.roomId, senderRole |-> p.role,
     senderId |-> p.senderId,
     content |-> encryptMessage(p.content, p.cipherKey, 2 * Len(msgs) + 1),
     translatedContent |->
         IF Truthy(p.translatedContent)
         THEN encryptMessage(p.translatedContent, p.cipherKey, 2 * Len(msgs) + 2)
         ELSE NullBody,
     language |-> p.language, targetLanguage |-> p.targetLanguage,
     timestamp |-> now, isAudio |-> p.isAudio]

\* The outcomes of decrypting a stored row: the Message with both bodies
\* decrypted, or the Error the first failing decryptMessage throws.
ReturnedMessage(row, cipherKey) ==
    LET contents == decryptMessage(row.content, cipherKey)
        translations == IF row.translatedContent # NullBody
                        THEN decryptMessage(row.translatedContent, cipherKey)
                        ELSE {DecryptReturns(NullText)}
    IN {[ok |-> FALSE, error |-> c.error, msg |-> NoMsg] :
            c \in {x \in contents : ~x.ok}}
       \cup {[ok |-> FALSE, error |-> tc.error, msg |-> NoMsg] :
                tc \in {x \in translations :
                           ~x.ok /\ \E c \in contents : c.ok}}
       \cup {[ok |-> TRUE, error |-> NULL,
               msg |-> [row EXCEPT !.content = c.text,
                                   !.translatedContent = tc.text]] :
                c \in {x \in contents : x.ok},
                tc \in {x \in translations : x.ok}}

SendParams(t) ==
    [roomId |-> t.roomId, role |-> t.role, senderId |-> t.doctorId,
     content |-> t.content, cipherKey |-> t.cipherKey, language |-> t.language,
     targetLanguage |-> t.targetLanguage,
     translatedContent |-> t.translatedContent, isAudio |-> t.isAudio]

\* ------------------------------------------------------- socket handlers
ErrorEvent(message) == [ev |-> "error", message |-> message]

Handler(id, kind, pc, session) ==
    [BaseTask EXCEPT !.id = id, !.kind = kind, !.pc = pc,
                     !.sock = session.socketId, !.roomId = session.roomId,
                     !.role = session.role, !.doctorId = session.doctorId]

QueuedEvent(q) ==
    [ev |-> "new_message", content |-> q.content, senderRole |-> q.senderRole,
     senderId |-> q.senderId, language |-> q.language, timestamp |-> q.timestamp]

QueueOfNone(queues, roomId) == <<>>

QueueOf(queues, roomId) ==
    IF roomId \in DOMAIN queues THEN queues[roomId] ELSE <<>>

JoinRoomRejectNoType(roomId, role, auth) ==
    IF ~TruthyString(roomId) THEN "Room ID is required"
    ELSE IF role \notin {"patient", "doctor"} THEN "Invalid role"
    ELSE IF role = "doctor" /\ ~auth.ok THEN "Doctor authentication required"
    ELSE "ok"

JoinRoomReject(roomId, role, auth) ==
    IF ~TruthyString(roomId) THEN "Room ID is required"
    ELSE IF role \notin {"patient", "doctor"} THEN "Invalid role"
    ELSE IF role = "doctor" /\ (~auth.ok \/ auth.type # "doctor")
         THEN "Doctor authentication required"
    ELSE "ok"

\* Messages queued for the room that the joining socket meets for the first
\* time since they were queued.
FirstMeets(s, roomId) ==
    {m \in DOMAIN commits :
        /\ commits[m].queued
        /\ commits[m].roomId = roomId
        /\ s \notin commits[m].joinedSince}

CountOf(queue, m) ==
    Cardinality({i \in 1..Len(queue) : queue[i].timestamp = m})

\* join_room: the whole handler when the other role is absent, else up to
\* the await of exchangeKeys.
JoinRoom(s, roomId, role, language) ==
    /\ s \in connected
    /\ nextId < MaxEvents
    /\ Cardinality(tasks) < MaxTasks
    /\ nextId' = nextId + 1
    /\ LET auth == authenticateSocket(handshake[s])
           reject == JoinRoomReject(roomId, role, auth)
           doctorId == IF role = "doctor" THEN auth.id ELSE NULL
           session == Session(s, roomId, role, doctorId, language)
           sess1 == createSessionSessions(sessions, session)
           parts1 == createSessionParticipants(roomParticipants, session)
           adapter1 == [adapterRooms EXCEPT ![s] = @ \cup {roomId}]
           existing == SelectSeq(getRoomSessions(sess1, parts1, roomId),
                                 LAMBDA x : x.socketId # s)
           hasPatient == \E i \in 1..Len(existing) : existing[i].role = "patient"
           hasDoctor == \E i \in 1..Len(existing) : existing[i].role = "doctor"
           queued == QueueOf(offlineMessageQueues, roomId)
           ib1 == Emit(inbox, s,
                       [ev |-> "room_joined", roomId |-> roomId, role |-> role,
                        doctorId |-> doctorId,
                        patient |-> (hasPatient \/ role = "patient"),
                        doctor |-> (hasDoctor \/ role = "doctor")])
           ib2 == EmitTo(ib1, Members(adapter1, roomId) \ {s},
                         [ev |-> "user_joined", role |-> role, doctorId |-> doctorId])
           ib3 == EmitAll(ib2, {s} \cap connected,
                          [i \in 1..Len(queued) |-> QueuedEvent(queued[i])])
           met == FirstMeets(s, roomId)
       IN IF reject # "ok"
          THEN /\ inbox' = Emit(inbox, s, ErrorEvent(reject))
               /\ UNCHANGED <<sessions, roomParticipants, adapterRooms,
                              offlineMessageQueues, tasks, commits, nextJoinGot>>
          ELSE /\ sessions' = sess1
               /\ roomParticipants' = parts1
               /\ adapterRooms' = adapter1
               /\ inbox' = ib3
               /\ offlineMessageQueues' =
                      IF Len(queued) > 0
                      THEN MapDelete(offlineMessageQueues, roomId)
                      ELSE offlineMessageQueues
               /\ tasks' =
                      IF areBothParticipantsPresent(sess1, parts1, roomId)
                      THEN tasks \cup {Handler(nextId + 1, "join_room", "select", session)}
                      ELSE tasks
               /\ commits' =
                      [m \in DOMAIN commits |->
                          IF m \in met
                          THEN [commits[m] EXCEPT !.joinedSince = @ \cup {s}]
                          ELSE commits[m]]
               /\ nextJoinGot' = nextJoinGot \cup
                      {[msg |-> m, sock |-> s, role |-> role,
                        n |-> CountOf(queued, m)] : m \in met}
    /\ UNCHANGED handshake
    /\ UNCHANGED <<rooms, messages, connected, audioBuffer, callLog, holders>>

\* The SELECT of getRoom, awaited by a handler through exchangeKeys or
\* leaveRoom, is evaluated by the database; the handler resumes later with
\* the row read here, whatever is committed in between.
GetRoomSelect(t) ==
    /\ t \in tasks /\ t.pc = "select"
    /\ tasks' = (tasks \ {t}) \cup
          {[t EXCEPT !.room = getRoom(rooms, t.roomId),
                     !.pc = IF t.kind \in {"leave_room", "disconnect"}
                            THEN "release" ELSE "key"]}
    /\ UNCHANGED handshake
    /\ UNCHANGED <<rooms, messages, sessions, roomParticipants,
                   offlineMessageQueues, adapterRooms, connected, audioBuffer,
                   inbox, nextId, callLog, holders, commits, nextJoinGot>>

\* join_room resumed after exchangeKeys: the key goes to every socket in the
\* socket.io room, or the joiner gets an error.
JoinRoomKey(t) ==
    /\ t \in tasks /\ t.kind = "join_room" /\ t.pc = "key"
    /\ LET k == exchangeKeys(t.room)
       IN inbox' =
             IF k.ok
             THEN EmitTo(inbox, Members(adapterRooms, t.roomId),
                         [ev |-> "cipher_key_exchange", cipherKey |-> k.cipherKey])
             ELSE Emit(inbox, t.sock, ErrorEvent("Failed to exchange cipher keys"))
    /\ tasks' = tasks \ {t}
    /\ UNCHANGED handshake
    /\ UNCHANGED <<rooms, messages, sessions, roomParticipants,
                   offlineMessageQueues, adapterRooms, connected, audioBuffer,
                   nextId, callLog, holders, commits, nextJoinGot>>

\* translateMessage's result and speech-to-text's result, by construction
\* different from their input.
Translate(content, targetLanguage) == <<"tr", targetLanguage>> \o content

Transcribe(audio) == <<"stt">> \o audio

PipeFailSilent(t, message) ==
    /\ inbox' = inbox
    /\ audioBuffer' = audioBuffer
    /\ tasks' = tasks \ {t}

\* The catch block of send_message and of audio_chunk.
PipeFail(t, message) ==
    /\ inbox' = Emit(inbox, t.sock, ErrorEvent(message))
    /\ audioBuffer' = IF t.kind = "audio"
                      THEN [audioBuffer EXCEPT ![t.sock] = <<>>]
                      ELSE audioBuffer
    /\ tasks' = tasks \ {t}

\* sendMessage up to its INSERT: the role / senderId check, then encryption.
PipeToInsert(t, t1) ==
    LET res == sendMessageValidate(t1.role, t1.doctorId)
    IN IF res = "ok"
       THEN /\ tasks' = (tasks \ {t}) \cup {[t1 EXCEPT !.pc = "insert"]}
            /\ UNCHANGED <<inbox, audioBuffer>>
       ELSE PipeFail(t, res)

contentRequiredNoTrim(content) == ~Truthy(content)

\* !content || content.trim().length === 0
contentRequired(content) == ~Truthy(content) \/ Len(trim(content)) = 0

\* send_message up to the await of exchangeKeys; isAudio is the payload's
\* field, false when the payload has none.
SendMessage(s, content, language, translatedContent, targetLanguage, isAudio) ==
    /\ s \in connected
    /\ nextId < MaxEvents
    /\ Cardinality(tasks) < MaxTasks
    /\ nextId' = nextId + 1
    /\ IF ~getSession(sessions, s)
       THEN /\ inbox' = Emit(inbox, s, ErrorEvent("No active session found"))
            /\ tasks' = tasks
       ELSE IF contentRequired(content)
       THEN /\ inbox' = Emit(inbox, s, ErrorEvent("Message content is required"))
            /\ tasks' = tasks
       ELSE /\ inbox' = inbox
            /\ tasks' = tasks \cup
                  {[Handler(nextId + 1, "send", "select", sessions[s])
                      EXCEPT !.content = content, !.language = language,
                             !.translatedContent = translatedContent,
                             !.targetLanguage = targetLanguage,
                             !.isAudio = isAudio]}
    /\ UNCHANGED handshake
    /\ UNCHANGED <<rooms, messages, sessions, roomParticipants,
                   offlineMessageQueues, adapterRooms, connected, audioBuffer,
                   callLog, holders, commits, nextJoinGot>>

\* After exchangeKeys: snapshot the other participants, pick the first one's
\* language, and go on to the translation or to sendMessage.
PipeKey(t) ==
    /\ t \in tasks /\ t.kind \in {"send", "audio"} /\ t.pc = "key"
    /\ LET k == exchangeKeys(t.room)
           roomSessions == getRoomSessions(sessions, roomParticipants, t.roomId)
           others == SelectSeq(roomSessions, LAMBDA x : x.socketId # t.sock)
           t1 == [t EXCEPT !.cipherKey = k.cipherKey,
                           !.peers = [i \in 1..Len(others) |-> others[i].socketId]]
       IN IF ~k.ok THEN PipeFail(t, "Room not found")
          ELSE IF /\ Len(others) > 0
                  /\ TruthyString(others[1].language)
                  /\ others[1].language # t.language
          THEN /\ tasks' = (tasks \ {t}) \cup
                     {[t1 EXCEPT !.targetLanguage = others[1].language,
                                 !.pc = "translate"]}
               /\ UNCHANGED <<inbox, audioBuffer>>
          ELSE PipeToInsert(t, t1)
    /\ UNCHANGED handshake
    /\ UNCHANGED <<rooms, messages, sessions, roomParticipants,
                   offlineMessageQueues, adapterRooms, connected, nextId,
                   callLog, holders, commits, nextJoinGot>>

\* After translateMessageSafe: the translation, or the original text with
\* the error flag when the provider failed.
PipeTranslate(t, providerOk) ==
    /\ t \in tasks /\ t.kind \in {"send", "audio"} /\ t.pc = "translate"
    /\ PipeToInsert(t,
          [t EXCEPT !.translatedContent =
                        IF providerOk THEN Translate(t.content, t.targetLanguage)
                        ELSE t.content,
                    !.translationError = ~providerOk])
    /\ UNCHANGED handshake
    /\ UNCHANGED <<rooms, messages, sessions, roomParticipants,
                   offlineMessageQueues, adapterRooms, connected, nextId,
                   callLog, holders, commits, nextJoinGot>>

SessionsIn(sess, roomId) == {x \in DOMAIN sess : sess[x].roomId = roomId}

\* The INSERT of sendMessage commits in the database at clock reading now;
\* sendMessage returns the decrypted row to the handler, or a throw of
\* decryptMessage reaches the handler's catch.
PipeInsert(t, now) ==
    /\ t \in tasks /\ t.kind \in {"send", "audio"} /\ t.pc = "insert"
    /\ LET row == MessageRow(messages, SendParams(t), now)
       IN /\ messages' = Append(messages, row)
          /\ \E r \in ReturnedMessage(row, t.cipherKey) :
                IF r.ok
                THEN /\ tasks' = (tasks \ {t}) \cup
                           {[t EXCEPT !.pc = "emit", !.msg = r.msg]}
                     /\ UNCHANGED <<inbox, audioBuffer>>
                ELSE PipeFail(t, r.error)
          /\ commits' = MapPut(commits, row.timestamp,
                [event |-> t.id, roomId |-> t.roomId, sender |-> t.sock,
                 senderRole |-> t.role, content |-> t.content,
                 peers |-> SessionsIn(sessions, t.roomId) \ {t.sock},
                 done |-> FALSE, queued |-> FALSE, joinedSince |-> {}])
    /\ UNCHANGED handshake
    /\ UNCHANGED <<rooms, sessions, roomParticipants, offlineMessageQueues,
                   adapterRooms, connected, nextId, callLog, holders,
                   nextJoinGot>>

NewMessageEvent(t) ==
    [ev |-> "new_message", id |-> t.msg.id, content |-> t.msg.content,
     translatedContent |-> t.msg.translatedContent,
     senderRole |-> t.msg.senderRole, senderId |-> t.msg.senderId,
     language |-> t.msg.language, targetLanguage |-> t.msg.targetLanguage,
     timestamp |-> t.msg.timestamp, isAudio |-> t.msg.isAudio,
     translationError |-> t.translationError]

QueuedMessage(msg) ==
    [content |-> msg.content, senderRole |-> msg.senderRole,
     senderId |-> msg.senderId, language |-> msg.language,
     timestamp |-> msg.timestamp]

\* After sendMessage returned: broadcast to the socket.io room when the
\* snapshot had other participants, else queue; then confirm to the sender.
PipeEmit(t) ==
    /\ t \in tasks /\ t.kind \in {"send", "audio"} /\ t.pc = "emit"
    /\ LET others == Members(adapterRooms, t.roomId) \ {t.sock}
           live == Len(t.peers) > 0
           ib1 == IF live THEN EmitTo(inbox, others, NewMessageEvent(t)) ELSE inbox
           ib2 == IF live /\ Truthy(t.translatedContent) /\ ~t.translationError
                  THEN EmitTo(ib1, others,
                          [ev |-> "message_translated", id |-> t.msg.id,
                           translatedContent |-> t.msg.translatedContent,
                           targetLanguage |-> t.msg.targetLanguage])
                  ELSE ib1
       IN /\ inbox' = Emit(ib2, t.sock,
                [ev |-> "message_sent", id |-> t.msg.id,
                 timestamp |-> t.msg.timestamp])
          /\ offlineMessageQueues' =
                IF live THEN offlineMessageQueues
                ELSE MapPut(offlineMessageQueues, t.roomId,
                        Append(QueueOf(offlineMessageQueues, t.roomId),
                               QueuedMessage(t.msg)))
          /\ commits' = [commits EXCEPT ![t.msg.timestamp].done = TRUE,
                                        ![t.msg.timestamp].queued = ~live]
    /\ tasks' = tasks \ {t}
    /\ UNCHANGED handshake
    /\ UNCHANGED <<rooms, messages, sessions, roomParticipants, adapterRooms,
                   connected, audioBuffer, nextId, callLog, holders, nextJoinGot>>

\* audio_chunk: append the chunk; on the last chunk take the buffer and
\* await the transcription.
AudioChunk(s, chunk, isLast, language) ==
    /\ s \in connected
    /\ nextId < MaxEvents
    /\ Cardinality(tasks) < MaxTasks
    /\ nextId' = nextId + 1
    /\ IF ~getSession(sessions, s)
       THEN /\ inbox' = Emit(inbox, s, ErrorEvent("No active session found"))
            /\ UNCHANGED <<audioBuffer, tasks>>
       ELSE IF ~TruthyString(chunk)
       THEN /\ inbox' = Emit(inbox, s, ErrorEvent("Audio chunk is required"))
            /\ UNCHANGED <<audioBuffer, tasks>>
       ELSE LET buffer == Append(audioBuffer[s], chunk)
                targetLanguage == IF TruthyString(language) THEN language
                                  ELSE IF TruthyString(sessions[s].language)
                                  THEN sessions[s].language
                                  ELSE DefaultLanguage
            IN /\ inbox' = inbox
               /\ audioBuffer' = [audioBuffer EXCEPT ![s] =
                                     IF isLast THEN <<>> ELSE buffer]
               /\ tasks' =
                     IF isLast
                     THEN tasks \cup
                          {[Handler(nextId + 1, "audio", "stt", sessions[s])
                              EXCEPT !.content = buffer,
                                     !.language = targetLanguage,
                                     !.translatedContent = NullText,
                                     !.isAudio = TRUE]}
                     ELSE tasks
    /\ UNCHANGED handshake
    /\ UNCHANGED <<rooms, messages, sessions, roomParticipants,
                   offlineMessageQueues, adapterRooms, connected,
                   callLog, holders, commits, nextJoinGot>>

AudioTranscribedGoOn(t, providerOk) ==
    /\ t \in tasks /\ t.kind = "audio" /\ t.pc = "stt"
    /\ inbox' = Emit(inbox, t.sock,
          IF providerOk
          THEN [ev |-> "audio_transcribed", text |-> Transcribe(t.content),
                language |-> t.language]
          ELSE [ev |-> "stt_error",
                message |-> "Audio transcription failed, please try again or use text input"])
    /\ tasks' = (tasks \ {t}) \cup
          {[t EXCEPT !.content = Transcribe(t.content), !.pc = "select"]}
    /\ UNCHANGED handshake
    /\ UNCHANGED <<rooms, messages, sessions, roomParticipants,
                   offlineMessageQueues, adapterRooms, connected, audioBuffer,
                   nextId, callLog, holders, commits, nextJoinGot>>

\* After transcribeAudioSafe: stt_error when it returned null, else the
\* text goes to the sender and into the send pipeline.
AudioTranscribed(t, providerOk) ==
    /\ t \in tasks /\ t.kind = "audio" /\ t.pc = "stt"
    /\ IF providerOk
       THEN /\ inbox' = Emit(inbox, t.sock,
                  [ev |-> "audio_transcribed", text |-> Transcribe(t.content),
                   language |-> t.language])
            /\ tasks' = (tasks \ {t}) \cup
                  {[t EXCEPT !.content = Transcribe(t.content), !.pc = "select"]}
       ELSE /\ inbox' = Emit(inbox, t.sock,
                  [ev |-> "stt_error",
                   message |-> "Audio transcription failed, please try again or use text input"])
            /\ tasks' = tasks \ {t}
    /\ UNCHANGED handshake
    /\ UNCHANGED <<rooms, messages, sessions, roomParticipants,
                   offlineMessageQueues, adapterRooms, connected, audioBuffer,
                   nextId, callLog, holders, commits, nextJoinGot>>

LeftEvents(reason, session) ==
    <<[ev |-> "cipher_key_invalidated", reason |-> reason],
      [ev |-> "user_left", role |-> session.role, doctorId |-> session.doctorId]>>

\* leave_room: the whole handler for a patient, else up to the await of
\* leaveRoom.  The task remembers the room record as it was when the
\* handler started (seen); the handler itself does not read it.
LeaveRoom(s) ==
    /\ s \in connected
    /\ nextId < MaxEvents
    /\ Cardinality(tasks) < MaxTasks
    /\ nextId' = nextId + 1
    /\ IF ~getSession(sessions, s)
       THEN /\ inbox' = Emit(inbox, s, ErrorEvent("No active session found"))
            /\ UNCHANGED <<sessions, roomParticipants, adapterRooms, tasks>>
       ELSE LET session == sessions[s]
                adapter1 == [adapterRooms EXCEPT ![s] = @ \ {session.roomId}]
                release == session.role = "doctor"
                               /\ TruthyString(session.doctorId)
            IN /\ adapterRooms' = adapter1
               /\ inbox' = EmitAll(inbox, Members(adapter1, session.roomId) \ {s},
                                   LeftEvents("participant_left", session))
               /\ tasks' = IF release
                           THEN tasks \cup
                                {[Handler(nextId + 1, "leave_room", "select", session)
                                    EXCEPT !.seen = getRoom(rooms, session.roomId)]}
                           ELSE tasks
               /\ sessions' = IF release THEN sessions
                              ELSE deleteSessionSessions(sessions, s)
               /\ roomParticipants' =
                      IF release THEN roomParticipants
                      ELSE deleteSessionParticipants(sessions, roomParticipants, s)
    /\ UNCHANGED handshake
    /\ UNCHANGED <<rooms, messages, offlineMessageQueues, connected,
                   audioBuffer, callLog, holders, commits, nextJoinGot>>

DisconnectNotify(s) ==
    /\ s \in connected
    /\ nextId < MaxEvents
    /\ nextId' = nextId + 1
    /\ connected' = connected \ {s}
    /\ adapterRooms' = [adapterRooms EXCEPT ![s] = {}]
    /\ inbox' = EmitTo(inbox, connected' ,
                       [ev |-> "user_left", role |-> NULL, doctorId |-> NULL])
    /\ UNCHANGED <<rooms, messages, sessions, roomParticipants,
                   offlineMessageQueues, audioBuffer, handshake, tasks,
                   callLog, holders, commits, nextJoinGot>>

\* disconnect: socket.io has closed the transport and left every room
\* before the handler runs.
Disconnect(s) ==
    /\ s \in connected
    /\ nextId < MaxEvents
    /\ Cardinality(tasks) < MaxTasks
    /\ nextId' = nextId + 1
    /\ connected' = connected \ {s}
    /\ adapterRooms' = [adapterRooms EXCEPT ![s] = {}]
    /\ IF ~getSession(sessions, s)
       THEN UNCHANGED <<inbox, sessions, roomParticipants, tasks>>
       ELSE LET session == sessions[s]
                release == session.role = "doctor"
                               /\ TruthyString(session.doctorId)
            IN /\ inbox' = EmitAll(inbox,
                               Members(adapterRooms', session.roomId) \ {s},
                               LeftEvents("participant_disconnected", session))
               /\ tasks' = IF release
                           THEN tasks \cup
                                {[Handler(nextId + 1, "disconnect", "select", session)
                                    EXCEPT !.seen = getRoom(rooms, session.roomId)]}
                           ELSE tasks
               /\ sessions' = IF release THEN sessions
                              ELSE deleteSessionSessions(sessions, s)
               /\ roomParticipants' =
                      IF release THEN roomParticipants
                      ELSE deleteSessionParticipants(sessions, roomParticipants, s)
    /\ UNCHANGED handshake
    /\ UNCHANGED <<rooms, messages, offlineMessageQueues, audioBuffer,
                   callLog, holders, commits, nextJoinGot>>

\* leaveRoom called by a handler, resumed after its getRoom up to its
\* UPDATE.  When it throws, leave_room reports the error and returns;
\* disconnect logs it and goes on to deleteSession.
ReleaseRead(t) ==
    /\ t \in tasks /\ t.kind \in {"leave_room", "disconnect"} /\ t.pc = "release"
    /\ LET res == leaveRoomCheck(t.room, t.role, t.doctorId)
       IN IF res = "update"
          THEN /\ tasks' = (tasks \ {t}) \cup {[t EXCEPT !.pc = "update"]}
               /\ UNCHANGED <<inbox, sessions, roomParticipants>>
          ELSE IF t.kind = "leave_room"
          THEN /\ tasks' = tasks \ {t}
               /\ inbox' = Emit(inbox, t.sock, ErrorEvent(res))
               /\ UNCHANGED <<sessions, roomParticipants>>
          ELSE /\ tasks' = tasks \ {t}
               /\ sessions' = deleteSessionSessions(sessions, t.sock)
               /\ roomParticipants' =
                      deleteSessionParticipants(sessions, roomParticipants, t.sock)
               /\ inbox' = inbox
    /\ UNCHANGED handshake
    /\ UNCHANGED <<rooms, messages, offlineMessageQueues, adapterRooms,
                   connected, audioBuffer, nextId, callLog, holders, commits,
                   nextJoinGot>>

\* The UPDATE of leaveRoom commits in the database.
ReleaseWrite(t) ==
    /\ t \in tasks /\ t.kind \in {"leave_room", "disconnect"} /\ t.pc = "update"
    /\ rooms' = leaveRoomUpdate(rooms, t.roomId)
    /\ holders' = [holders EXCEPT ![t.roomId] = @ \ {t.doctorId}]
    /\ tasks' = (tasks \ {t}) \cup {[t EXCEPT !.pc = "cleanup"]}
    /\ UNCHANGED handshake
    /\ UNCHANGED <<messages, sessions, roomParticipants, offlineMessageQueues,
                   adapterRooms, connected, audioBuffer, inbox, nextId,
                   callLog, commits, nextJoinGot>>

\* After leaveRoom returned: deleteSession.
ReleaseDone(t) ==
    /\ t \in tasks /\ t.kind \in {"leave_room", "disconnect"} /\ t.pc = "cleanup"
    /\ sessions' = deleteSessionSessions(sessions, t.sock)
    /\ roomParticipants' =
          deleteSessionParticipants(sessions, roomParticipants, t.sock)
    /\ tasks' = tasks \ {t}
    /\ UNCHANGED handshake
    /\ UNCHANGED <<rooms, messages, offlineMessageQueues, adapterRooms,
                   connected, audioBuffer, inbox, nextId, callLog, holders,
                   commits, nextJoinGot>>

\* sendMessage called directly (as the service tests do): one INSERT when
\* the role / senderId check passes.
ServiceSendMessage(roomId, role, senderId, content, now) ==
    /\ nextId < MaxEvents
    /\ nextId' = nextId + 1
    /\ LET res == sendMessageValidate(role, senderId)
           params == [roomId |-> roomId, role |-> role, senderId |-> senderId,
                      content |-> content, cipherKey |-> rooms[roomId].cipherKey,
                      language |-> DefaultLanguage, targetLanguage |-> NULL,
                      translatedContent |-> NullText, isAudio |-> FALSE]
           row == MessageRow(messages, params, now)
       IN IF res = "ok"
          THEN /\ messages' = Append(messages, row)
               /\ \E r \in ReturnedMessage(row, params.cipherKey) :
                     callLog' = Append(callLog,
                        LogEntry("sendMessage", roomId, role, senderId,
                                 IF r.ok THEN "ok" ELSE r.error,
                                 Len(messages), Len(messages')))
          ELSE /\ messages' = messages
               /\ callLog' = Append(callLog,
                     LogEntry("sendMessage", roomId, role, senderId, res,
                              Len(messages), Len(messages)))
    /\ UNCHANGED handshake
    /\ UNCHANGED <<rooms, sessions, roomParticipants, offlineMessageQueues,
                   adapterRooms, connected, audioBuffer, inbox, tasks, holders,
                   commits, nextJoinGot>>

\* ------------------------------------------------------------------ init
InitState ==
    /\ rooms = [r \in RoomIds |-> [doctorId |-> NULL, cipherKey |-> CipherKeyOf(r)]]
    /\ messages = <<>>
    /\ sessions = EmptyMap
    /\ roomParticipants = EmptyMap
    /\ offlineMessageQueues = EmptyMap
    /\ adapterRooms = [s \in Sockets |-> {}]
    /\ connected = Sockets
    /\ audioBuffer = [s \in Sockets |-> <<>>]
    /\ inbox = [s \in Sockets |-> <<>>]
    /\ tasks = {}
    /\ nextId = 0
    /\ callLog = <<>>
    /\ holders = [r \in RoomIds |-> {}]
    /\ commits = EmptyMap
    /\ nextJoinGot = {}

Init == InitState /\ handshake = HandshakeToken

\* -------------------------------------------- room store, concurrent calls
AllRoomIds == RoomIds \cup {UnknownRoom}

StoreClaim(limit) ==
    \E r \in AllRoomIds, d \in Doctors :
        /\ JoinRoomAsDoctorRead(limit, MaxCalls, r, d)
        /\ UNCHANGED socketVars

StoreClaimDone ==
    \E t \in tasks : JoinRoomAsDoctorWrite(t) /\ UNCHANGED socketVars

StoreRelease(limit) ==
    \E r \in AllRoomIds, role \in {"patient", "doctor"},
       d \in Doctors \cup {NULL, ""} :
        /\ LeaveRoomRead(limit, MaxCalls, r, role, d)
        /\ UNCHANGED socketVars

StoreReleaseDone ==
    \E t \in tasks : LeaveRoomWrite(t) /\ UNCHANGED socketVars

StoreCreate(limit) == CreateRoom(limit) /\ UNCHANGED socketVars

NextStore ==
    \/ StoreCreate(MaxTasks)
    \/ StoreClaim(MaxTasks)
    \/ StoreClaimDone
    \/ StoreRelease(MaxTasks)
    \/ StoreReleaseDone

SpecStore == Init /\ [][NextStore]_vars

\* -------------------------------------------- room store, one call at a time
NextSeq ==
    \/ StoreCreate(1)
    \/ StoreClaim(1)
    \/ StoreClaimDone
    \/ StoreRelease(1)
    \/ StoreReleaseDone

SpecSeq == Init /\ [][NextSeq]_vars

\* ------------------------------------------------- the coordinator's events
JoinInputs ==
    [roomId : RoomIds, role : {"patient", "doctor"}, language : Languages]
        \cup {[roomId |-> UnknownRoom, role |-> "patient", language |-> DefaultLanguage]}

SendInputs ==
    {[content |-> Hello, translatedContent |-> NullText, targetLanguage |-> NULL,
      isAudio |-> FALSE],
     [content |-> Blank, translatedContent |-> NullText, targetLanguage |-> NULL,
      isAudio |-> FALSE],
     [content |-> Whitespace, translatedContent |-> NullText, targetLanguage |-> NULL,
      isAudio |-> FALSE],
     [content |-> Hello, translatedContent |-> NullText, targetLanguage |-> "es",
      isAudio |-> FALSE],
     [content |-> Hello, translatedContent |-> <<"client">>, targetLanguage |-> "es",
      isAudio |-> FALSE]}

OnJoinRoom ==
    \E s \in Sockets, in \in JoinInputs :
        JoinRoom(s, in.roomId, in.role, in.language)

OnGetRoomSelect == \E t \in tasks : GetRoomSelect(t)

OnJoinRoomKey == \E t \in tasks : JoinRoomKey(t)

OnSendMessage ==
    \E s \in Sockets, in \in SendInputs :
        SendMessage(s, in.content, DefaultLanguage, in.translatedContent,
                    in.targetLanguage, in.isAudio)

OnAudioChunk ==
    \E s \in Sockets, isLast \in BOOLEAN : AudioChunk(s, "a", isLast, NULL)

OnAudioTranscribed ==
    \E t \in tasks, providerOk \in BOOLEAN : AudioTranscribed(t, providerOk)

OnPipeKey == \E t \in tasks : PipeKey(t)

OnPipeTranslate ==
    \E t \in tasks, providerOk \in BOOLEAN : PipeTranslate(t, providerOk)

\* The handlers' rows are inserted at distinct instants: the events carry
\* no id for a queued message, and the timestamp tells the messages apart.
OnPipeInsert == \E t \in tasks : PipeInsert(t, Later(messages))

OnPipeEmit == \E t \in tasks : PipeEmit(t)

OnLeaveRoom == \E s \in Sockets : LeaveRoom(s)

OnDisconnect == \E s \in Sockets : Disconnect(s)

OnReleaseRead == \E t \in tasks : ReleaseRead(t)

OnReleaseWrite == \E t \in tasks : ReleaseWrite(t)

OnReleaseDone == \E t \in tasks : ReleaseDone(t)

\* POST /api/rooms
HttpCreateRoom == CreateRoom(MaxTasks) /\ UNCHANGED socketVars

HttpJoinRoom ==
    \E r \in RoomIds, d \in Doctors :
        /\ JoinRoomAsDoctorRead(MaxTasks, MaxEvents, r, d)
        /\ UNCHANGED socketVars

OnServiceSendMessage ==
    \E r \in RoomIds, role \in {"patient", "doctor"}, d \in {NULL, "D1"} :
        ServiceSendMessage(r, role, d, Hello, Later(messages))

Next ==
    \/ OnJoinRoom
    \/ OnGetRoomSelect
    \/ OnJoinRoomKey
    \/ OnSendMessage
    \/ OnAudioChunk
    \/ OnAudioTranscribed
    \/ OnPipeKey
    \/ OnPipeTranslate
    \/ OnPipeInsert
    \/ OnPipeEmit
    \/ OnLeaveRoom
    \/ OnDisconnect
    \/ OnReleaseRead
    \/ OnReleaseWrite
    \/ OnReleaseDone
    \/ HttpJoinRoom
    \/ StoreClaimDone
    \/ OnServiceSendMessage

Spec == Init /\ [][Next]_vars

\* ----------------------------------- text chat: joins, sends, departures
NextChat ==
    \/ OnJoinRoom
    \/ OnGetRoomSelect
    \/ OnJoinRoomKey
    \/ OnSendMessage
    \/ OnPipeKey
    \/ OnPipeTranslate
    \/ OnPipeInsert
    \/ OnPipeEmit
    \/ OnLeaveRoom
    \/ OnDisconnect
    \/ OnReleaseRead
    \/ OnReleaseWrite
    \/ OnReleaseDone
    \/ HttpJoinRoom
    \/ StoreClaimDone

SpecChat == Init /\ [][NextChat]_vars

\* ------------------------------- session life cycle, any handshake token
InitSession ==
    /\ InitState
    /\ handshake \in {[HandshakeToken EXCEPT !["s1"] = k] :
                          k \in {x \in Tokens : x.kind # "doctor"}}

NextSession ==
    \/ OnJoinRoom
    \/ OnGetRoomSelect
    \/ OnJoinRoomKey
    \/ OnLeaveRoom
    \/ OnDisconnect
    \/ OnReleaseRead
    \/ OnReleaseWrite
    \/ OnReleaseDone
    \/ HttpJoinRoom
    \/ StoreClaimDone

SpecSession == InitSession /\ [][NextSession]_vars

\* ------------------------- session registry called directly, two room ids
RegistryRooms == {"R1", "R2"}

\* createSession(session)
RegistryCreate(s, roomId, role) ==
    /\ nextId < MaxEvents
    /\ nextId' = nextId + 1
    /\ LET session == Session(s, roomId, role,
                              IF role = "doctor" THEN "D1" ELSE NULL,
                              DefaultLanguage)
       IN /\ sessions' = createSessionSessions(sessions, session)
          /\ roomParticipants' = createSessionParticipants(roomParticipants, session)
    /\ UNCHANGED <<rooms, messages, offlineMessageQueues, adapterRooms,
                   connected, audioBuffer, handshake, inbox, tasks, callLog,
                   holders, commits, nextJoinGot>>

\* deleteSession(socketId)
RegistryDelete(s) ==
    /\ nextId < MaxEvents
    /\ nextId' = nextId + 1
    /\ sessions' = deleteSessionSessions(sessions, s)
    /\ roomParticipants' = deleteSessionParticipants(sessions, roomParticipants, s)
    /\ UNCHANGED <<rooms, messages, offlineMessageQueues, adapterRooms,
                   connected, audioBuffer, handshake, inbox, tasks, callLog,
                   holders, commits, nextJoinGot>>

OnRegistryCreate ==
    \E s \in Sockets, r \in RegistryRooms, role \in {"patient", "doctor"} :
        RegistryCreate(s, r, role)

OnRegistryDelete == \E s \in Sockets : RegistryDelete(s)

NextRegistry == OnRegistryCreate \/ OnRegistryDelete

SpecRegistry == Init /\ [][NextRegistry]_vars

\* ------------------------------------------------------ update_language
updateLanguageSessionsAll(sess, socketId, language) ==
    [x \in DOMAIN sess |-> [sess[x] EXCEPT !.language = language]]

\* session.language = language; sessions.set(socket.id, session)
updateLanguageSessions(sess, socketId, language) ==
    [sess EXCEPT ![socketId].language = language]

LanguageUpdated(language) == [ev |-> "language_updated", language |-> language]

\* update_language: no await; a missing language is NULL. Languages are
\* strings, so typeof language !== 'string' adds nothing to !language.
UpdateLanguage(s, language) ==
    /\ s \in connected
    /\ nextId < MaxEvents
    /\ nextId' = nextId + 1
    /\ IF ~getSession(sessions, s)
       THEN /\ inbox' = Emit(inbox, s, ErrorEvent("No active session found"))
            /\ sessions' = sessions
       ELSE IF ~TruthyString(language)
       THEN /\ inbox' = Emit(inbox, s, ErrorEvent("Invalid language"))
            /\ sessions' = sessions
       ELSE /\ sessions' = updateLanguageSessions(sessions, s, language)
            /\ inbox' = Emit(inbox, s, LanguageUpdated(language))
    /\ UNCHANGED <<rooms, messages, roomParticipants, offlineMessageQueues,
                   adapterRooms, connected, audioBuffer, handshake, tasks,
                   callLog, holders, commits, nextJoinGot>>

OnUpdateLanguage ==
    \E s \in Sockets, language \in Languages \cup {NULL, ""} :
        UpdateLanguage(s, language)

\* ------------------------------ joins, language updates and text messages
NextLanguage ==
    \/ OnJoinRoom
    \/ OnGetRoomSelect
    \/ OnJoinRoomKey
    \/ OnUpdateLanguage
    \/ OnSendMessage
    \/ OnPipeKey
    \/ OnPipeTranslate
    \/ OnPipeInsert
    \/ OnPipeEmit

SpecLanguage == Init /\ [][NextLanguage]_vars

\* ------------------------------------------------------------ getMessages
DefaultLimit == 50
DefaultOffset == 0

\* ORDER BY timestamp DESC
newerThan(a, b) == a.timestamp > b.timestamp

\* SELECT ... WHERE room_id = $1 ORDER BY timestamp DESC: every order of
\* the room's rows in which no row comes before a newer one.  Rows of one
\* timestamp come in an order the database chooses at each query.
selectRoomMessages(msgs, roomId) ==
    LET rows == {msgs[i] : i \in {j \in 1..Len(msgs) : msgs[j].roomId = roomId}}
        n == Cardinality(rows)
    IN {ord \in [1..n -> rows] :
           /\ \A i, j \in 1..n : i # j => ord[i] # ord[j]
           /\ \A i \in 1..(n - 1) : ~newerThan(ord[i + 1], ord[i])}

\* GetMessagesParams: limit and offset are optional fields.
GetMessagesParams(roomId, cipherKey) ==
    LET base == [roomId |-> roomId, cipherKey |-> cipherKey]
    IN {base}
         \cup {base @@ [limit |-> l] : l \in 1..MaxLimit}
         \cup {base @@ [offset |-> o] : o \in 0..MaxOffset}
         \cup {base @@ [limit |-> l, offset |-> o] :
                  l \in 1..MaxLimit, o \in 0..MaxOffset}

\* rows.map(decrypt) when no row throws: every list of decrypted rows.
RECURSIVE DecryptedPages(_)
DecryptedPages(outs) ==
    IF outs = <<>> THEN {<<>>}
    ELSE {<<r.msg>> \o rest :
             r \in {x \in Head(outs) : x.ok},
             rest \in DecryptedPages(Tail(outs))}

\* LIMIT $2 OFFSET $3, then every row decrypted in order; a missing limit
\* or offset takes its default. The outcomes: the list of messages, or the
\* Error thrown at the first row that fails to decrypt.
getMessages(msgs, params) ==
    LET lim == IF "limit" \in DOMAIN params THEN params.limit ELSE DefaultLimit
        off == IF "offset" \in DOMAIN params THEN params.offset ELSE DefaultOffset
        last(ordered) ==
            IF off + lim < Len(ordered) THEN off + lim ELSE Len(ordered)
        pages == {SubSeq(ordered, off + 1, last(ordered)) :
                     ordered \in selectRoomMessages(msgs, params.roomId)}
        outs(page) == [k \in 1..Len(page) |->
                          ReturnedMessage(page[k], params.cipherKey)]
    IN UNION {
         {[ok |-> TRUE, error |-> NULL, rows |-> rows] :
             rows \in DecryptedPages(outs(page))}
         \cup {[ok |-> FALSE, error |-> r.error, rows |-> <<>>] :
                 r \in UNION {{x \in outs(page)[k] : ~x.ok} :
                                 k \in {j \in 1..Len(page) :
                                           \A i \in 1..(j - 1) :
                                               \E y \in outs(page)[i] : y.ok}}}
         : page \in pages}

\* getMessages called directly; the call and what it returned or threw are
\* logged.
ServiceGetMessages(params) ==
    /\ nextId < MaxEvents
    /\ nextId' = nextId + 1
    /\ \E out \in getMessages(messages, params) :
          callLog' = Append(callLog,
              [kind |-> "getMessages", params |-> params,
               pre |-> Len(messages), error |-> out.error,
               result |-> out.rows])
    /\ UNCHANGED <<rooms, messages, sessions, roomParticipants,
                   offlineMessageQueues, adapterRooms, connected, audioBuffer,
                   handshake, inbox, tasks, holders, commits, nextJoinGot>>

OnServiceGetMessages ==
    \E params \in GetMessagesParams("R1", CipherKeyOf("R1"))
                     \cup {[roomId |-> UnknownRoom,
                             cipherKey |-> CipherKeyOf(UnknownRoom)]} :
        ServiceGetMessages(params)

\* sendMessage called directly, the clock advanced since the last row or
\* not.
OnStoreSendMessage ==
    \E r \in RoomIds, role \in {"patient", "doctor"}, d \in {NULL, "D1"},
       now \in {SameInstant(messages), Later(messages)} :
        ServiceSendMessage(r, role, d, Hello, now)

\* --------------------------------- message store: direct sends and reads
NextPage == OnStoreSendMessage \/ OnServiceGetMessages

SpecPage == Init /\ [][NextPage]_vars

\* ------------------------------------------ request_tts and INSERT faults
\* pool.query of the INSERT rejects (connection lost, constraint): the
\* handler's catch emits the error to the socket.
PipeInsertFailRoom(t) ==
    /\ t \in tasks /\ t.kind \in {"send", "audio"} /\ t.pc = "insert"
    /\ inbox' = EmitTo(inbox, Members(adapterRooms, t.roomId),
                       ErrorEvent("Connection terminated unexpectedly"))
    /\ audioBuffer' = audioBuffer
    /\ tasks' = tasks \ {t}
    /\ UNCHANGED <<rooms, messages, sessions, roomParticipants,
                   offlineMessageQueues, adapterRooms, connected, handshake,
                   nextId, callLog, holders, commits, nextJoinGot>>

PipeInsertFail(t) ==
    /\ t \in tasks /\ t.kind \in {"send", "audio"} /\ t.pc = "insert"
    /\ PipeFail(t, "Connection terminated unexpectedly")
    /\ UNCHANGED <<rooms, messages, sessions, roomParticipants,
                   offlineMessageQueues, adapterRooms, connected, handshake,
                   nextId, callLog, holders, commits, nextJoinGot>>

\* request_tts up to the await of generateSpeechSafe.
RequestTts(s, text, language, messageId) ==
    /\ s \in connected
    /\ nextId < MaxEvents
    /\ Cardinality(tasks) < MaxTasks
    /\ nextId' = nextId + 1
    /\ IF ~getSession(sessions, s)
       THEN /\ inbox' = Emit(inbox, s, ErrorEvent("No active session found"))
            /\ tasks' = tasks
       ELSE IF contentRequired(text)
       THEN /\ inbox' = Emit(inbox, s, ErrorEvent("Text is required for TTS"))
            /\ tasks' = tasks
       ELSE /\ inbox' = inbox
            /\ tasks' = tasks \cup
                  {[Handler(nextId + 1, "tts", "speech", sessions[s])
                      EXCEPT !.content = text,
                             !.language =
                                 IF TruthyString(language) THEN language
                                 ELSE IF TruthyString(sessions[s].language)
                                 THEN sessions[s].language
                                 ELSE DefaultLanguage,
                             !.messageId = messageId]}
    /\ UNCHANGED <<rooms, messages, sessions, roomParticipants,
                   offlineMessageQueues, adapterRooms, connected, audioBuffer,
                   handshake, callLog, holders, commits, nextJoinGot>>

AudioStream(t, index, total) ==
    [ev |-> "audio_stream", chunk |-> <<"mp3", index>> \o t.content,
     index |-> index, total |-> total, isLast |-> (index = total - 1),
     messageId |-> t.messageId]

\* The message of the Error a failing mkdirSync or writeFileSync throws.
DebugWriteError == "ENOENT: no such file or directory"

\* After generateSpeechSafe: tts_error when it returned null (total = 0);
\* else the audio is written to the debug file, and either the write throws
\* and the catch reports it, or streamAudio emits the first of total chunks
\* and waits.
TtsDone(t, total, written) ==
    /\ t \in tasks /\ t.kind = "tts" /\ t.pc = "speech"
    /\ IF total = 0
       THEN /\ inbox' = Emit(inbox, t.sock,
                  [ev |-> "tts_error", messageId |-> t.messageId,
                   message |-> "TTS generation failed, please read the text"])
            /\ tasks' = tasks \ {t}
       ELSE IF ~written
       THEN /\ inbox' = Emit(inbox, t.sock, ErrorEvent(DebugWriteError))
            /\ tasks' = tasks \ {t}
       ELSE /\ inbox' = Emit(inbox, t.sock, AudioStream(t, 0, total))
            /\ tasks' = (tasks \ {t}) \cup
                  {[t EXCEPT !.pc = "stream", !.index = 1, !.total = total]}
    /\ UNCHANGED <<rooms, messages, sessions, roomParticipants,
                   offlineMessageQueues, adapterRooms, connected, audioBuffer,
                   handshake, nextId, callLog, holders, commits, nextJoinGot>>

\* streamAudio after the delay that follows a chunk: the next chunk, or the
\* end of the handler.
TtsStream(t) ==
    /\ t \in tasks /\ t.kind = "tts" /\ t.pc = "stream"
    /\ IF t.index < t.total
       THEN /\ inbox' = Emit(inbox, t.sock, AudioStream(t, t.index, t.total))
            /\ tasks' = (tasks \ {t}) \cup {[t EXCEPT !.index = t.index + 1]}
       ELSE /\ inbox' = inbox
            /\ tasks' = tasks \ {t}
    /\ UNCHANGED <<rooms, messages, sessions, roomParticipants,
                   offlineMessageQueues, adapterRooms, connected, audioBuffer,
                   handshake, nextId, callLog, holders, commits, nextJoinGot>>

OnPipeInsertFail == \E t \in tasks : PipeInsertFail(t)

OnTtsDone ==
    \E t \in tasks, total \in 0..MaxChunks, written \in BOOLEAN :
        TtsDone(t, total, written)

OnTtsStream == \E t \in tasks : TtsStream(t)

\* --------------------- handlers with failing database, providers and rooms
\* Events come from two of the sockets: s1 without a token, s2 with D1's.
FaultSockets == {"s1", "s2"}

OnFaultJoin ==
    \E s \in FaultSockets, in \in JoinInputs :
        JoinRoom(s, in.roomId, in.role, in.language)

OnFaultSend ==
    \E s \in FaultSockets :
        SendMessage(s, Hello, DefaultLanguage, NullText, NULL, FALSE)

OnFaultAudio ==
    \E s \in FaultSockets, isLast \in BOOLEAN : AudioChunk(s, "a", isLast, NULL)

OnFaultTts ==
    \E s \in FaultSockets, text \in {Hello, Whitespace} :
        RequestTts(s, text, NULL, "m1")

NextFault ==
    \/ HttpCreateRoom
    \/ OnFaultJoin
    \/ OnGetRoomSelect
    \/ OnJoinRoomKey
    \/ OnFaultSend
    \/ OnFaultAudio
    \/ OnAudioTranscribed
    \/ OnPipeKey
    \/ OnPipeTranslate
    \/ OnPipeInsert
    \/ OnPipeInsertFail
    \/ OnPipeEmit
    \/ OnFaultTts
    \/ OnTtsDone
    \/ OnTtsStream

SpecFault == Init /\ [][NextFault]_vars

\* ------------- send_message with every awaited call returning or failing
OnReplySend ==
    \E s \in FaultSockets, content \in {Hello, Blank} :
        SendMessage(s, content, DefaultLanguage, NullText, NULL, FALSE)

NextReply ==
    \/ OnFaultJoin
    \/ OnGetRoomSelect
    \/ OnJoinRoomKey
    \/ OnReplySend
    \/ OnPipeKey
    \/ OnPipeTranslate
    \/ OnPipeInsert
    \/ OnPipeInsertFail
    \/ OnPipeEmit

\* Every promise a handler awaits settles: the key fetch, the translation
\* and the INSERT return or fail, and the handler then resumes.
SpecReply ==
    /\ Init /\ [][NextReply]_vars
    /\ WF_vars(OnGetRoomSelect)
    /\ WF_vars(OnJoinRoomKey)
    /\ WF_vars(OnPipeKey)
    /\ WF_vars(OnPipeTranslate)
    /\ WF_vars(OnPipeInsert \/ OnPipeInsertFail)
    /\ WF_vars(OnPipeEmit)

\* ------------- text messages of well-formed and of ill-formed strings,
\* with and without the payload's isAudio flag
\* JSON carries a surrogate without its pair as an escape, so a client can
\* send one in content.
OnCipherSend ==
    \E s \in FaultSockets, content \in {Hello, Unpaired}, isAudio \in BOOLEAN :
        SendMessage(s, content, DefaultLanguage, NullText, NULL, isAudio)

NextCipher ==
    \/ OnFaultJoin
    \/ OnGetRoomSelect
    \/ OnJoinRoomKey
    \/ OnCipherSend
    \/ OnPipeKey
    \/ OnPipeTranslate
    \/ OnPipeInsert
    \/ OnPipeEmit
    \/ HttpJoinRoom
    \/ StoreClaimDone

SpecCipher == Init /\ [][NextCipher]_vars

\* ----------------------------- audio uploads: chunks present or missing
AudioChunks == {"a", "b", NULL, ""}

\* A client may send language: null or "" with join_room; the default
\* applies to a missing field only.
FalsyLanguages == {NULL, ""}

AudioJoinInputs ==
    JoinInputs \cup
        [roomId : RoomIds, role : {"patient", "doctor"}, language : FalsyLanguages]

OnAudioJoin ==
    \E s \in FaultSockets, in \in AudioJoinInputs :
        JoinRoom(s, in.roomId, in.role, in.language)

OnAudioInput ==
    \E s \in FaultSockets, chunk \in AudioChunks, isLast \in BOOLEAN :
        AudioChunk(s, chunk, isLast, NULL)

NextAudio ==
    \/ OnAudioJoin
    \/ OnGetRoomSelect
    \/ OnJoinRoomKey
    \/ OnAudioInput
    \/ OnAudioTranscribed
    \/ OnPipeKey
    \/ OnPipeTranslate
    \/ OnPipeInsert
    \/ OnPipeInsertFail
    \/ OnPipeEmit

SpecAudio == Init /\ [][NextAudio]_vars

\* ------------------------------------------- streamAudio called directly
\* A buffer of the given length; its bytes are told apart by their value.
AudioBuffer(length) == [i \in 1..length |-> i]

totalChunksFloor(length, chunkSize) == length \div chunkSize

\* Math.ceil(audioBuffer.length / chunkSize)
totalChunks(length, chunkSize) == (length + chunkSize - 1) \div chunkSize

\* audioBuffer.slice(i * chunkSize, Math.min(start + chunkSize, length))
sliceChunk(buffer, i, chunkSize) ==
    LET start == i * chunkSize
        end == IF start + chunkSize < Len(buffer) THEN start + chunkSize
               ELSE Len(buffer)
    IN SubSeq(buffer, start + 1, end)

\* chunk.toString('base64') and its inverse
toBase64(bytes) == <<"b64">> \o bytes

fromBase64(text) == Tail(text)

\* The payload streamAudio hands to emitFunction('audio_stream', ...).
AudioFrame(buffer, i, chunkSize) ==
    [chunk |-> toBase64(sliceChunk(buffer, i, chunkSize)), index |-> i,
     total |-> totalChunks(Len(buffer), chunkSize),
     isLast |-> (i = totalChunks(Len(buffer), chunkSize) - 1)]

StreamLog(t) ==
    [kind |-> "streamAudio", id |-> t.id, buffer |-> t.content,
     chunkSize |-> t.chunkSize, frames |-> t.frames]

\* streamAudio up to its first delay: the first frame goes to the emit
\* callback, whose calls are recorded in order; an empty buffer has no
\* frame and the call returns at once.
StreamAudio(buffer, chunkSize) ==
    /\ nextId < MaxEvents
    /\ nextId < MaxStreams
    /\ Cardinality(tasks) < MaxTasks
    /\ nextId' = nextId + 1
    /\ LET t == [BaseTask EXCEPT !.id = nextId + 1, !.kind = "stream",
                                 !.pc = "delay", !.content = buffer,
                                 !.chunkSize = chunkSize,
                                 !.total = totalChunks(Len(buffer), chunkSize)]
       IN IF 0 < t.total
          THEN /\ tasks' = tasks \cup
                     {[t EXCEPT !.index = 1,
                                !.frames = <<AudioFrame(buffer, 0, chunkSize)>>]}
               /\ callLog' = callLog
          ELSE /\ tasks' = tasks
               /\ callLog' = Append(callLog, StreamLog(t))
    /\ UNCHANGED <<rooms, messages, sessions, roomParticipants,
                   offlineMessageQueues, adapterRooms, connected, audioBuffer,
                   handshake, inbox, holders, commits, nextJoinGot>>

\* streamAudio after a delay: the next frame, or the return.
StreamNext(t) ==
    /\ t \in tasks /\ t.kind = "stream" /\ t.pc = "delay"
    /\ IF t.index < t.total
       THEN /\ tasks' = (tasks \ {t}) \cup
                  {[t EXCEPT !.index = t.index + 1,
                             !.frames = Append(t.frames,
                                 AudioFrame(t.content, t.index, t.chunkSize))]}
            /\ callLog' = callLog
       ELSE /\ tasks' = tasks \ {t}
            /\ callLog' = Append(callLog, StreamLog(t))
    /\ UNCHANGED <<rooms, messages, sessions, roomParticipants,
                   offlineMessageQueues, adapterRooms, connected, audioBuffer,
                   handshake, inbox, nextId, holders, commits, nextJoinGot>>

OnStreamAudio ==
    \E length \in 0..MaxLen, chunkSize \in 1..MaxChunkSize :
        StreamAudio(AudioBuffer(length), chunkSize)

OnStreamNext == \E t \in tasks : StreamNext(t)

NextStream == OnStreamAudio \/ OnStreamNext

\* Every delay of streamAudio elapses.
SpecStream == Init /\ [][NextStream]_vars /\ WF_vars(OnStreamNext)

\* ================================================================ claims

\* C4: a room's doctor-id is null or a doctor whose claim succeeded and who
\* has not released the room since, under every interleaving of
\* joinRoomAsDoctor and leaveRoom calls.
C4_DoctorIsHolder ==
    \A r \in DOMAIN rooms :
        rooms[r].doctorId # NULL => rooms[r].doctorId \in holders[r]

C4_Witness ==
    /\ rooms["R1"].doctorId # NULL
    /\ \E i \in 1..Len(callLog) :
          callLog[i].kind = "release" /\ callLog[i].result = "ok"

\* C5: the claim is atomic: the doctor-id of a room never changes directly
\* from one doctor to a different doctor.
C5_NoRebind ==
    [][\A r \in DOMAIN rooms :
          (rooms[r].doctorId # NULL /\ rooms'[r].doctorId # NULL)
              => rooms'[r].doctorId = rooms[r].doctorId]_vars

\* C6: run one call at a time, joinRoomAsDoctor(room, D) succeeds and sets
\* doctor-id = D exactly when the room exists and its doctor-id is null or D;
\* it fails with 'Room not found' for an unknown room and with 'Room already
\* has a doctor assigned' for a room held by another doctor, and a failed
\* call leaves the room record unchanged.
C6_Expected(e) ==
    IF ~e.pre.found THEN "Room not found"
    ELSE IF e.pre.doctorId \notin {NULL, e.doctorId}
         THEN "Room already has a doctor assigned"
    ELSE "ok"

C6_ClaimSequential ==
    /\ \A i \in 1..Len(callLog) :
          LET e == callLog[i] IN
          e.kind = "claim" =>
              /\ e.result = C6_Expected(e)
              /\ e.result = "ok" =>
                    /\ e.post.doctorId = e.doctorId
                    /\ e.post.cipherKey = e.pre.cipherKey
              /\ e.result # "ok" => e.post = e.pre
    /\ (tasks = {} /\ callLog # <<>> /\ callLog[Len(callLog)].pre.found)
          => getRoom(rooms, callLog[Len(callLog)].roomId) = callLog[Len(callLog)].post

C6_Witness ==
    \E i, j \in 1..Len(callLog) :
        /\ i < j
        /\ callLog[i].kind = "claim" /\ callLog[i].result = "ok"
        /\ callLog[j].kind = "claim"
        /\ callLog[j].result = "Room already has a doctor assigned"

\* C7: a release by doctor D clears the doctor-id only when the doctor-id at
\* the moment of the write is D: a step that clears a slot held by X is the
\* write of a release called by X.
C7_ReleaseOnlyOwn ==
    [][\A r \in DOMAIN rooms :
          (rooms[r].doctorId # NULL /\ rooms'[r].doctorId = NULL)
              => /\ Len(callLog') = Len(callLog) + 1
                 /\ callLog'[Len(callLog')].kind = "release"
                 /\ callLog'[Len(callLog')].doctorId = rooms[r].doctorId]_vars

\* C8: release is idempotent: two successive leaveRoom(room, 'doctor', D)
\* calls after D claimed the room leave doctor-id null, the state one call
\* leaves.
C8_ReleaseIdempotent ==
    \A i \in 1..(Len(callLog) - 1) :
        LET a == callLog[i]
            b == callLog[i + 1]
        IN (/\ a.kind = "release" /\ b.kind = "release"
            /\ a.role = "doctor" /\ b.role = "doctor"
            /\ a.doctorId # NULL /\ b.doctorId = a.doctorId
            /\ a.roomId = b.roomId
            /\ a.pre.found /\ a.pre.doctorId = a.doctorId)
           => /\ a.post.doctorId = NULL
              /\ b.post = a.post

C8_Witness ==
    \E i \in 1..(Len(callLog) - 1) :
        /\ callLog[i].kind = "release" /\ callLog[i + 1].kind = "release"
        /\ callLog[i].result = "ok"
        /\ callLog[i + 1].doctorId = callLog[i].doctorId
        /\ callLog[i + 1].role = "doctor"
        /\ callLog[i + 1].roomId = callLog[i].roomId

\* C1: every socket that has a session in the room at the moment the message
\* record is committed, other than the sender, has received a new_message
\* for that message once the send handler has finished.
C1_Delivery ==
    \A m \in DOMAIN commits :
        commits[m].done =>
            \A p \in commits[m].peers :
                \E i \in 1..Len(inbox[p]) :
                    /\ inbox[p][i].ev = "new_message"
                    /\ inbox[p][i].timestamp = m

\* C2: a message queued while the peer was absent is delivered exactly once
\* to the peer (a socket of the other role) on its next join_room for the
\* room, whatever happened in the room in between.
C2_QueuedOnce ==
    \A g \in nextJoinGot :
        (/\ g.sock # commits[g.msg].sender
         /\ g.role # commits[g.msg].senderRole)
            => g.n = 1

\* C3: every peer observes the new_message events of one sending socket in
\* the order in which that socket's send events were accepted.
C3_SenderOrder ==
    \A p \in Sockets :
        \A i, j \in 1..Len(inbox[p]) :
            (/\ i < j
             /\ inbox[p][i].ev = "new_message"
             /\ inbox[p][j].ev = "new_message"
             /\ commits[inbox[p][i].timestamp].sender
                    = commits[inbox[p][j].timestamp].sender)
                => commits[inbox[p][i].timestamp].event
                       < commits[inbox[p][j].timestamp].event

\* C9: no persisted patient message has a non-null sender-id, and a write
\* with role patient and a non-null sender-id is rejected and persists
\* nothing.
C9_Anonymity ==
    /\ \A i \in 1..Len(messages) :
          messages[i].senderRole = "patient" => messages[i].senderId = NULL
    /\ \A i \in 1..Len(callLog) :
          (/\ callLog[i].kind = "sendMessage"
           /\ callLog[i].role = "patient"
           /\ callLog[i].doctorId # NULL)
              => /\ callLog[i].result # "ok"
                 /\ callLog[i].post = callLog[i].pre

C9_Witness ==
    /\ \E m \in DOMAIN commits :
          commits[m].senderRole = "patient" /\ commits[m].done
    /\ \E i \in 1..Len(callLog) :
          /\ callLog[i].kind = "sendMessage"
          /\ callLog[i].role = "patient"
          /\ callLog[i].doctorId # NULL

\* C10: when no handler is in flight and a room holds a patient session and
\* a doctor session, every socket with a session in the room has received a
\* cipher_key_exchange.
C10_KeyComplete ==
    \A r \in RoomIds :
        (/\ tasks = {}
         /\ \E x \in SessionsIn(sessions, r) : sessions[x].role = "patient"
         /\ \E x \in SessionsIn(sessions, r) : sessions[x].role = "doctor")
            => \A x \in SessionsIn(sessions, r) :
                  \E i \in 1..Len(inbox[x]) :
                      /\ inbox[x][i].ev = "cipher_key_exchange"
                      /\ inbox[x][i].cipherKey = rooms[r].cipherKey

\* C11: a join_room for a room id without a room record is rejected: no
\* session names such a room, no membership set exists for it, no socket is
\* in its socket.io room and no room_joined for it has been emitted.
C11_UnknownRoomRejected ==
    /\ \A s \in DOMAIN sessions : sessions[s].roomId \in DOMAIN rooms
    /\ \A r \in DOMAIN roomParticipants : r \in DOMAIN rooms
    /\ \A s \in Sockets : adapterRooms[s] \subseteq DOMAIN rooms
    /\ \A s \in Sockets : \A i \in 1..Len(inbox[s]) :
          inbox[s][i].ev = "room_joined" => inbox[s][i].roomId \in DOMAIN rooms

\* C12: a join_room with role doctor and verified id D2 creates no session
\* while the room's stored doctor-id is another, non-null doctor D1.
C12_OtherDoctorRejected ==
    [][\A s \in Sockets :
          (/\ s \in DOMAIN sessions'
           /\ (s \in DOMAIN sessions => sessions[s] # sessions'[s])
           /\ sessions'[s].role = "doctor"
           /\ sessions'[s].roomId \in DOMAIN rooms)
              => rooms[sessions'[s].roomId].doctorId
                     \in {NULL, sessions'[s].doctorId}]_vars

\* C13: a join_room with role doctor creates a session only when the
\* handshake token verifies with kind doctor, and the session's doctor-id is
\* then the token's id; with a missing, invalid, expired or user-kind token
\* the socket gets an error, no session or membership changes, and the
\* socket stays connected.
C13_DoctorTokenRequired ==
    [][/\ \A s \in DOMAIN sessions' :
             sessions'[s].role = "doctor"
                 => handshake[s] = DoctorToken(sessions'[s].doctorId)
       /\ \A s \in Sockets, in \in JoinInputs :
             (nextId' = nextId + 1
                  /\ JoinRoom(s, in.roomId, "doctor", in.language)) =>
                 IF handshake[s].kind = "doctor"
                 THEN /\ s \in DOMAIN sessions'
                      /\ sessions'[s].role = "doctor"
                      /\ sessions'[s].doctorId = handshake[s].id
                 ELSE /\ sessions' = sessions
                      /\ roomParticipants' = roomParticipants
                      /\ adapterRooms' = adapterRooms
                      /\ connected' = connected
                      /\ inbox' = [inbox EXCEPT ![s] =
                            Append(@, ErrorEvent("Doctor authentication required"))]
      ]_vars

C13_Witness ==
    /\ \E s \in Sockets :
          /\ handshake[s].kind \in {"invalid", "expired", "user"}
          /\ s \in connected
          /\ s \notin DOMAIN sessions
          /\ \E i \in 1..Len(inbox[s]) :
                inbox[s][i] = ErrorEvent("Doctor authentication required")
    /\ \E s \in DOMAIN sessions : sessions[s].role = "doctor"

\* C14: a socket that joins a room with queued messages receives room_joined
\* first and then one new_message per queued entry, in queue order, with no
\* other event in between; the cipher_key_exchange of that join comes after
\* them, as the last event of the handler.
IsQueued(e) == e.ev = "new_message" /\ "id" \notin DOMAIN e

C14_JoinOrder ==
    [][/\ \A s \in Sockets, in \in JoinInputs :
             (/\ nextId' = nextId + 1
              /\ JoinRoomReject(in.roomId, in.role,
                                authenticateSocket(handshake[s])) = "ok"
              /\ s \in DOMAIN sessions'
              /\ sessions'[s].roomId = in.roomId
              /\ JoinRoom(s, in.roomId, in.role, in.language))
                 => LET q == QueueOf(offlineMessageQueues, in.roomId)
                        n == Len(inbox[s])
                    IN /\ Len(inbox'[s]) = n + 1 + Len(q)
                       /\ SubSeq(inbox'[s], 1, n) = inbox[s]
                       /\ inbox'[s][n + 1].ev = "room_joined"
                       /\ \A i \in 1..Len(q) :
                             inbox'[s][n + 1 + i] = QueuedEvent(q[i])
       /\ \A t \in tasks :
             (/\ JoinRoomKey(t)
              /\ exchangeKeys(t.room).ok
              /\ t.sock \in Members(adapterRooms, t.roomId))
                 => LET ib == inbox'[t.sock]
                    IN /\ ib[Len(ib)].ev = "cipher_key_exchange"
                       /\ \E i \in 1..(Len(ib) - 1) :
                             /\ ib[i].ev = "room_joined"
                             /\ ib[i].roomId = t.roomId
                             /\ \A j \in (i + 1)..(Len(ib) - 1) :
                                   IsQueued(ib[j]) =>
                                       \A k \in (i + 1)..j : IsQueued(ib[k])
      ]_vars

C14_Witness ==
    \E s \in Sockets : \E i \in 1..(Len(inbox[s]) - 2) :
        /\ inbox[s][i].ev = "room_joined"
        /\ inbox[s][i].patient /\ inbox[s][i].doctor
        /\ IsQueued(inbox[s][i + 1])
        /\ inbox[s][i + 2].ev = "cipher_key_exchange"

\* C15: on every new_message broadcast to a peer, translationError true
\* means translated-content equals content; otherwise a target-language
\* that differs from the language comes with a translated-content that is
\* neither null nor empty.
C15_TranslationTruthful ==
    \A s \in Sockets : \A i \in 1..Len(inbox[s]) :
        LET e == inbox[s][i] IN
        (e.ev = "new_message" /\ ~IsQueued(e)) =>
            IF e.translationError
            THEN e.translatedContent = e.content
            ELSE (e.targetLanguage # NULL /\ e.targetLanguage # e.language)
                     => Truthy(e.translatedContent)

\* C16: a message delivered with translationError true (the provider
\* failed) is persisted with translated-content null.
C16_FailedTranslationNull ==
    \A s \in Sockets : \A i \in 1..Len(inbox[s]) :
        LET e == inbox[s][i] IN
        (e.ev = "new_message" /\ ~IsQueued(e) /\ e.translationError) =>
            /\ e.id \in 1..Len(messages)
            /\ messages[e.id].translatedContent = NullBody

\* C17: a send_message with empty or whitespace-only content gets an error
\* and nothing else happens: no exchangeKeys or sendMessage call is started,
\* no row is inserted, nothing is queued and no other socket gets an event.
C17_BlankRejected ==
    [][\A s \in Sockets, in \in SendInputs :
          (/\ (in.content = Blank \/ in.content = Whitespace)
           /\ SendMessage(s, in.content, DefaultLanguage, in.translatedContent,
                          in.targetLanguage, in.isAudio))
              => /\ tasks' = tasks
                 /\ messages' = messages
                 /\ offlineMessageQueues' = offlineMessageQueues
                 /\ Len(inbox'[s]) = Len(inbox[s]) + 1
                 /\ inbox'[s][Len(inbox'[s])].ev = "error"
                 /\ \A x \in Sockets \ {s} : inbox'[x] = inbox[x]]_vars

C17_Witness ==
    /\ \E s \in DOMAIN sessions : \E i \in 1..Len(inbox[s]) :
          inbox[s][i] = ErrorEvent("Message content is required")
    /\ messages = <<>>
    /\ tasks = {}

\* C18: a disconnect of a socket without a session changes neither the
\* session map, the membership index, the offline queues nor any room
\* record, starts nothing and emits no event.
C18_DisconnectNoSession ==
    [][\A s \in Sockets :
          (s \in connected /\ s \notin connected' /\ s \notin DOMAIN sessions)
              => /\ sessions' = sessions
                 /\ roomParticipants' = roomParticipants
                 /\ offlineMessageQueues' = offlineMessageQueues
                 /\ rooms' = rooms
                 /\ messages' = messages
                 /\ tasks' = tasks
                 /\ inbox' = inbox]_vars

C18_Witness ==
    \E s \in Sockets :
        /\ s \notin connected
        /\ s \notin DOMAIN sessions
        /\ inbox[s] = <<>>
        /\ \E x \in connected : x \in DOMAIN sessions

\* C19: a leave_room of a socket without a session changes no state and
\* emits no event.
C19_LeaveNoSession ==
    [][\A s \in Sockets :
          (LeaveRoom(s) /\ s \notin DOMAIN sessions)
              => /\ inbox' = inbox
                 /\ sessions' = sessions
                 /\ roomParticipants' = roomParticipants
                 /\ adapterRooms' = adapterRooms
                 /\ tasks' = tasks]_vars

\* C20: when the leave_room or disconnect handler of a doctor socket
\* completes, the socket has no session, is not in the membership set of
\* the room it left, and the step sends it no event, also when the release
\* of the doctor slot failed.
C20_SessionGone ==
    [][\A t \in tasks :
          (/\ t.kind \in {"leave_room", "disconnect"}
           /\ \A u \in tasks' : u.id # t.id)
              => /\ t.sock \notin DOMAIN sessions'
                 /\ t.roomId \in DOMAIN roomParticipants'
                        => t.sock \notin Range(roomParticipants'[t.roomId])
                 /\ inbox'[t.sock] = inbox[t.sock]]_vars

\* C21: when a patient socket disconnects while the room holds a doctor
\* session, every other connected socket with a session in the room that is
\* not itself leaving receives cipher_key_invalidated (reason
\* participant_disconnected) and user_left (role patient), the disconnecting
\* socket receives nothing, and no room record changes.
C21_PatientDisconnect ==
    [][\A s \in Sockets :
          (/\ s \in connected /\ s \notin connected'
           /\ s \in DOMAIN sessions
           /\ sessions[s].role = "patient"
           /\ \E x \in SessionsIn(sessions, sessions[s].roomId) :
                 sessions[x].role = "doctor")
              => /\ rooms' = rooms
                 /\ inbox'[s] = inbox[s]
                 /\ \A x \in SessionsIn(sessions, sessions[s].roomId) \ {s} :
                       (/\ x \in connected
                        /\ \A t \in tasks :
                              t.sock = x =>
                                  t.kind \notin {"leave_room", "disconnect"})
                          => inbox'[x] = inbox[x] \o
                                 LeftEvents("participant_disconnected",
                                            sessions[s])]_vars

\* C22: when the leave_room or disconnect handler of a doctor D1 who held
\* the room's slot at the start of the handler is through with the release
\* (leaveRoom returned or threw), the room's doctor-id is null, so that a
\* claim by any other doctor passes the slot check.
C22_SlotFreed ==
    [][\A t \in tasks :
          (/\ t.kind \in {"leave_room", "disconnect"}
           /\ t.pc \in {"release", "update"}
           /\ t.roomId \in DOMAIN rooms
           /\ t.seen.doctorId = t.doctorId
           /\ \A u \in tasks' : u.id = t.id => u.pc = "cleanup")
              => /\ rooms'[t.roomId].doctorId = NULL
                 /\ \A d \in Doctors :
                       joinRoomAsDoctorCheck(getRoom(rooms', t.roomId), d) = "ok"
      ]_vars

\* C23: the membership of a room never holds more than one session with
\* role patient nor more than one with role doctor.
C23_OnePerRole ==
    \A r \in DOMAIN roomParticipants \cap RoomIds :
        LET roomSessions == getRoomSessions(sessions, roomParticipants, r)
            n(role) == Cardinality({i \in 1..Len(roomSessions) :
                                        roomSessions[i].role = role})
        IN n("patient") <= 1 /\ n("doctor") <= 1

\* C24: a message persisted with sender-role doctor has a non-null
\* sender-id equal to the room's doctor-id at the moment of the INSERT.
C24_DoctorIsClaimant ==
    [][Len(messages') = Len(messages) + 1 =>
          LET m == messages'[Len(messages')] IN
          m.senderRole = "doctor"
              => /\ m.senderId # NULL
                 /\ m.senderId = rooms[m.roomId].doctorId]_vars

\* C25: the membership index and the session map agree: a socket is in room
\* R's set exactly when its session names room R, and no room maps to an
\* empty set.
C25_IndexAgrees ==
    /\ \A r \in DOMAIN roomParticipants : Len(roomParticipants[r]) > 0
    /\ \A r \in RegistryRooms \cup AllRoomIds, s \in Sockets :
          (r \in DOMAIN roomParticipants /\ s \in Range(roomParticipants[r]))
              <=> (s \in DOMAIN sessions /\ sessions[s].roomId = r)

\* C26: update_language changes only the language field of the sending
\* socket's session and emits language_updated to that socket alone; every
\* other session, the membership sets, the queues, the rooms, the messages
\* and every other socket's events stay as they were, and applying the same
\* update to the resulting session map changes nothing.
C26_LanguageOnly ==
    [][\A s \in Sockets, l \in Languages \cup {NULL, ""} :
          (nextId' = nextId + 1 /\ UpdateLanguage(s, l)) =>
             /\ rooms' = rooms /\ messages' = messages
             /\ roomParticipants' = roomParticipants
             /\ offlineMessageQueues' = offlineMessageQueues
             /\ adapterRooms' = adapterRooms /\ connected' = connected
             /\ tasks' = tasks
             /\ DOMAIN sessions' = DOMAIN sessions
             /\ \A x \in DOMAIN sessions \ {s} : sessions'[x] = sessions[x]
             /\ \A x \in Sockets \ {s} : inbox'[x] = inbox[x]
             /\ (s \in DOMAIN sessions /\ l \in Languages) =>
                   /\ sessions'[s] = Session(s, sessions[s].roomId,
                                             sessions[s].role,
                                             sessions[s].doctorId, l)
                   /\ inbox'[s] = Append(inbox[s], LanguageUpdated(l))
                   /\ updateLanguageSessions(sessions', s, l) = sessions'
             /\ (s \notin DOMAIN sessions \/ l \notin Languages) =>
                   /\ sessions' = sessions
                   /\ Len(inbox'[s]) = Len(inbox[s]) + 1
                   /\ inbox'[s][Len(inbox'[s])].ev = "error"]_vars

\* Reached: a socket updated twice to the same language while another
\* session in its room has a different language.
C26_Witness ==
    \E s \in DOMAIN sessions, x \in DOMAIN sessions :
        /\ x # s /\ sessions[x].roomId = sessions[s].roomId
        /\ sessions[x].language # sessions[s].language
        /\ Cardinality({i \in 1..Len(inbox[s]) :
              inbox[s][i] = LanguageUpdated(sessions[s].language)}) >= 2

\* C27: every room keeps the cipher key it was created with, and for every
\* message persisted by a handler, decrypting the stored content under the
\* key now stored on the message's room yields the text the sender submitted.
C27_RoundTrip ==
    /\ \A r \in DOMAIN rooms : rooms[r].cipherKey = CipherKeyOf(r)
    /\ \A i \in 1..Len(messages) :
          LET m == messages[i] IN
          m.timestamp \in DOMAIN commits =>
              decryptMessage(m.content, getRoom(rooms, m.roomId).cipherKey)
                  = {DecryptReturns(commits[m.timestamp].content)}

\* C28: getMessages(room, limit, offset) returns the room's messages newest
\* first, skipping the offset newest ones and returning at most limit: the
\* k-th returned record is a record of the room, decrypted, with at most
\* offset + k - 1 newer records and more than offset + k - 1 records that
\* are not older; limit 1 and offset 0 give exactly one message, than which
\* none is newer, an offset equal to the room's count gives the empty
\* list; and however the database answers the reads of the pages at
\* offsets 0, limit, 2 * limit, ... of one table, every read succeeds and
\* the pages neither repeat nor skip a message.
C28_Pagination ==
    /\ \A i \in 1..Len(callLog) :
          LET e == callLog[i] IN
          e.kind = "getMessages" =>
             LET lim == IF "limit" \in DOMAIN e.params THEN e.params.limit ELSE 50
                 off == IF "offset" \in DOMAIN e.params THEN e.params.offset ELSE 0
                 rows == {messages[j] :
                            j \in {x \in 1..e.pre :
                                      messages[x].roomId = e.params.roomId}}
                 count == Cardinality(rows)
                 newer(m) == Cardinality({x \in rows : x.timestamp > m.timestamp})
                 notOlder(m) ==
                     Cardinality({x \in rows : x.timestamp >= m.timestamp})
             IN /\ e.error = NULL
                /\ Len(e.result) <= lim
                /\ Len(e.result) =
                      IF count - off <= 0 THEN 0
                      ELSE IF count - off < lim THEN count - off ELSE lim
                /\ \A k \in 1..Len(e.result) :
                      \E m \in rows :
                          /\ newer(m) <= off + k - 1
                          /\ off + k - 1 < notOlder(m)
                          /\ e.result[k].id = m.id
                          /\ e.result[k].timestamp = m.timestamp
                          /\ e.result[k].senderRole = m.senderRole
                          /\ e.result[k].content = decodeUtf8(m.content.data)
                /\ \A k \in 1..(Len(e.result) - 1) :
                      e.result[k].timestamp >= e.result[k + 1].timestamp
                /\ (lim = 1 /\ off = 0 /\ count > 0) =>
                      /\ Len(e.result) = 1
                      /\ \A m \in rows : m.timestamp <= e.result[1].timestamp
                /\ off = count => e.result = <<>>
    /\ \A r \in AllRoomIds, lim \in 1..MaxLimit :
          LET all == {messages[j].id :
                         j \in {x \in 1..Len(messages) : messages[x].roomId = r}}
              count == Cardinality(all)
              outs(n) == getMessages(messages,
                            [roomId |-> r, cipherKey |-> CipherKeyOf(r),
                             limit |-> lim, offset |-> n * lim])
              reads == {f \in [0..count -> UNION {outs(n) : n \in 0..count}] :
                           \A n \in 0..count : f[n] \in outs(n)}
              ids(f, n) == {f[n].rows[k].id : k \in 1..Len(f[n].rows)}
          IN \A f \in reads :
                /\ \A n \in 0..count : f[n].ok
                /\ \A a, b \in 0..count :
                      a # b => ids(f, a) \cap ids(f, b) = {}
                /\ UNION {ids(f, n) : n \in 0..count} = all

\* A step that emits an error, stt_error or tts_error event emits it to the
\* socket whose handler ran in that step and to nobody else, and leaves
\* every socket connected and every session in place.
ErrorOnlyToOriginator ==
    \A x \in Sockets :
        (\E k \in (Len(inbox[x]) + 1)..Len(inbox'[x]) :
             inbox'[x][k].ev \in {"error", "stt_error", "tts_error"}) =>
           /\ connected' = connected /\ x \in connected'
           /\ sessions' = sessions
           /\ roomParticipants' = roomParticipants
           /\ \A y \in Sockets \ {x} : inbox'[y] = inbox[y]
           /\ \/ \E t \in tasks \ tasks' : t.sock = x
              \/ \E in \in JoinInputs :
                    JoinRoom(x, in.roomId, in.role, in.language)
              \/ \E isAudio \in BOOLEAN :
                    SendMessage(x, Hello, DefaultLanguage, NullText, NULL,
                                isAudio)
              \/ \E isLast \in BOOLEAN : AudioChunk(x, "a", isLast, NULL)
              \/ \E text \in {Hello, Whitespace} :
                    RequestTts(x, text, NULL, "m1")

\* The handler t resumes from a failed INSERT, speech generation,
\* debug-file write, transcription or key fetch.
HandlerFailure(t) ==
    \/ PipeInsertFail(t)
    \/ \E total \in 0..MaxChunks, written \in BOOLEAN :
          (total = 0 \/ ~written) /\ TtsDone(t, total, written)
    \/ AudioTranscribed(t, FALSE)
    \/ (~exchangeKeys(t.room).ok /\ PipeKey(t))

\* The step ends handler t with one error, stt_error or tts_error event on
\* its socket.
FailureReported(t) ==
    /\ Len(inbox'[t.sock]) = Len(inbox[t.sock]) + 1
    /\ inbox'[t.sock][Len(inbox'[t.sock])].ev
          \in {"error", "stt_error", "tts_error"}
    /\ \A u \in tasks' : u.id # t.id

C30_NoDrop ==
    \A m \in DOMAIN commits :
        commits[m].done =>
            \/ commits[m].queued
            \/ \E p \in Sockets \ {commits[m].sender} :
                  \E k \in 1..Len(inbox[p]) :
                      /\ inbox[p][k].ev = "new_message"
                      /\ inbox[p][k].timestamp = m

\* C31: a departure is announced once: when a socket that has already left
\* its socket.io room through leave_room disconnects, the disconnect
\* announces nothing more (no other socket receives an event in that step).
C31_AnnouncedOnce ==
    [][\A s \in Sockets :
          (/\ s \in connected /\ s \notin connected'
           /\ adapterRooms[s] = {}) =>
              \A x \in Sockets \ {s} : inbox'[x] = inbox[x]]_vars

\* C32: every doctor session with doctor-id D in room R lives in a room
\* whose stored doctor-id is D.
C32_DoctorSessionHoldsSlot ==
    \A s \in DOMAIN sessions :
        sessions[s].role = "doctor" =>
            /\ getRoom(rooms, sessions[s].roomId).found
            /\ getRoom(rooms, sessions[s].roomId).doctorId = sessions[s].doctorId

\* C33: when a join_room handler emits cipher_key_exchange, the room's
\* membership holds a patient session and a doctor session at that moment
\* (stated for a joiner that still has the session it joined with, no
\* socket having moved to another room).
C33_KeyWhileBothPresent ==
    [][\A t \in tasks :
          (/\ t.kind = "join_room" /\ t \notin tasks'
           /\ t.sock \in DOMAIN sessions /\ sessions[t.sock].role = t.role
           /\ \A x \in DOMAIN sessions : sessions[x].roomId = t.roomId
           /\ \E x \in Sockets :
                 /\ Len(inbox'[x]) = Len(inbox[x]) + 1
                 /\ inbox'[x][Len(inbox'[x])].ev = "cipher_key_exchange") =>
              areBothParticipantsPresent(sessions, roomParticipants, t.roomId)]_vars

\* C34: a join_room that succeeds (room_joined is emitted to the joiner)
\* delivers no queued entry whose sender-role is the joiner's role, and
\* leaves every such entry in the room's queue.
C34_DrainOtherPartyOnly ==
    [][\A s \in Sockets :
          (/\ Len(inbox'[s]) > Len(inbox[s])
           /\ inbox'[s][Len(inbox[s]) + 1].ev = "room_joined") =>
              LET joined == inbox'[s][Len(inbox[s]) + 1]
                  before == QueueOf(offlineMessageQueues, joined.roomId)
                  after == QueueOf(offlineMessageQueues', joined.roomId)
              IN /\ \A k \in (Len(inbox[s]) + 2)..Len(inbox'[s]) :
                       IsQueued(inbox'[s][k]) =>
                           inbox'[s][k].senderRole # joined.role
                 /\ \A i \in 1..Len(before) :
                       before[i].senderRole = joined.role =>
                           before[i] \in Range(after)]_vars

\* C35: the offline queue is FIFO and drained whole: an enqueue appends to
\* the room's queue; a join_room that succeeds emits the queued entries to
\* the joiner as new_message events in queue order, right after room_joined,
\* no other socket receives a new_message in that step, and afterwards the
\* room has no queue, so a later joiner receives none of them again.
C35_FifoDrain ==
    [][/\ \A s \in Sockets :
            (/\ Len(inbox'[s]) > Len(inbox[s])
             /\ inbox'[s][Len(inbox[s]) + 1].ev = "room_joined") =>
                LET r == inbox'[s][Len(inbox[s]) + 1].roomId
                    before == IF r \in DOMAIN offlineMessageQueues
                              THEN offlineMessageQueues[r] ELSE <<>>
                    base == Len(inbox[s]) + 1
                IN /\ Len(inbox'[s]) = base + Len(before)
                   /\ \A i \in 1..Len(before) :
                         LET e == inbox'[s][base + i] IN
                         /\ e.ev = "new_message"
                         /\ e.content = before[i].content
                         /\ e.senderRole = before[i].senderRole
                         /\ e.senderId = before[i].senderId
                         /\ e.timestamp = before[i].timestamp
                   /\ r \notin DOMAIN offlineMessageQueues'
                   /\ \A x \in Sockets \ {s} :
                         \A k \in (Len(inbox[x]) + 1)..Len(inbox'[x]) :
                             inbox'[x][k].ev # "new_message"
       /\ \A r \in DOMAIN offlineMessageQueues' :
            (r \in DOMAIN offlineMessageQueues
               /\ offlineMessageQueues'[r] # offlineMessageQueues[r]) =>
                /\ Len(offlineMessageQueues'[r]) = Len(offlineMessageQueues[r]) + 1
                /\ SubSeq(offlineMessageQueues'[r], 1, Len(offlineMessageQueues[r]))
                      = offlineMessageQueues[r]]_vars

\* Reached: a joiner has received two queued entries in one drain, oldest
\* first, and the room has no queue left.
C35_Witness ==
    \E s \in DOMAIN sessions :
        \E k \in 1..(Len(inbox[s]) - 2) :
            /\ inbox[s][k].ev = "room_joined"
            /\ IsQueued(inbox[s][k + 1]) /\ IsQueued(inbox[s][k + 2])
            /\ inbox[s][k + 1].timestamp # inbox[s][k + 2].timestamp
            /\ inbox[s][k].roomId \notin DOMAIN offlineMessageQueues

\* C36: a message whose handler found no other participant in its snapshot
\* is persisted with no translated content, no target language and no
\* translation error.
C36_AloneNoTranslation ==
    [][Len(messages') = Len(messages) + 1 =>
          \A t \in tasks :
              (/\ t.kind = "send" /\ t.pc = "insert" /\ t \notin tasks'
               /\ Len(t.peers) = 0) =>
                  LET m == messages'[Len(messages')] IN
                  /\ m.translatedContent = NullBody
                  /\ m.targetLanguage = NULL
                  /\ ~t.translationError]_vars

\* C37: each send_message event yields exactly one reply to the sender: a
\* rejected event gets one error at once; an accepted event gets nothing
\* until its handler ends, and the step that ends the handler emits exactly
\* one message_sent or error to the sender; message_sent comes only for a
\* row already persisted, in the step that broadcasts or enqueues it; and
\* every accepted handler does end.
C37_OneReply ==
    /\ [][/\ \A s \in FaultSockets, content \in {Hello, Blank} :
               (nextId' = nextId + 1
                  /\ SendMessage(s, content, DefaultLanguage, NullText, NULL,
                                 FALSE)) =>
                   IF tasks' = tasks
                   THEN /\ Len(inbox'[s]) = Len(inbox[s]) + 1
                        /\ inbox'[s][Len(inbox'[s])].ev = "error"
                   ELSE inbox'[s] = inbox[s]
          /\ \A t \in tasks :
               (t.kind = "send" /\ t \notin tasks') =>
                   IF \E u \in tasks' : u.id = t.id
                   THEN inbox'[t.sock] = inbox[t.sock]
                   ELSE /\ Len(inbox'[t.sock]) = Len(inbox[t.sock]) + 1
                        /\ LET e == inbox'[t.sock][Len(inbox'[t.sock])] IN
                           /\ e.ev \in {"message_sent", "error"}
                           /\ e.ev = "message_sent" =>
                                /\ \E i \in 1..Len(messages) :
                                      /\ messages[i].id = e.id
                                      /\ messages[i].timestamp = e.timestamp
                                /\ commits'[e.timestamp].done
                                /\ \/ Len(t.peers) > 0
                                   \/ /\ t.roomId \in DOMAIN offlineMessageQueues'
                                      /\ \E i \in 1..Len(offlineMessageQueues'[t.roomId]) :
                                            offlineMessageQueues'[t.roomId][i].timestamp
                                                = e.timestamp]_vars
    /\ \A i \in 1..MaxEvents :
          (\E t \in tasks : t.id = i /\ t.kind = "send")
              ~> (\A t \in tasks : t.id # i)

\* Reached: one socket has been answered message_sent for one event and the
\* error of a failed INSERT for another.
C37_Witness ==
    \E s \in Sockets :
        /\ \E k \in 1..Len(inbox[s]) : inbox[s][k].ev = "message_sent"
        /\ \E k \in 1..Len(inbox[s]) :
              inbox[s][k] = ErrorEvent("Connection terminated unexpectedly")

\* C38: when the transcription of a completed upload returns null, the
\* sender receives stt_error and the handler is over: that step emits
\* nothing else, persists and queues nothing, and leaves no continuation of
\* the handler that could emit audio_transcribed, new_message or
\* message_sent; and stt_error is emitted in no other situation.
C38_SttAbort ==
    [][/\ \A t \in tasks :
            (t.kind = "audio" /\ t.pc = "stt" /\ AudioTranscribed(t, FALSE)) =>
                /\ inbox'[t.sock] = Append(inbox[t.sock],
                      [ev |-> "stt_error",
                       message |-> "Audio transcription failed, please try again or use text input"])
                /\ \A u \in tasks' : u.id # t.id
       /\ \A x \in Sockets :
            (/\ Len(inbox'[x]) > Len(inbox[x])
             /\ inbox'[x][Len(inbox'[x])].ev = "stt_error") =>
                /\ Len(inbox'[x]) = Len(inbox[x]) + 1
                /\ \E t \in tasks \ tasks' :
                      /\ t.sock = x /\ t.kind = "audio" /\ t.pc = "stt"
                      /\ \A u \in tasks' : u.id # t.id
                /\ \A y \in Sockets \ {x} : inbox'[y] = inbox[y]
                /\ messages' = messages
                /\ offlineMessageQueues' = offlineMessageQueues
                /\ commits' = commits]_vars

\* Reached: a sender with a peer in its room got stt_error, and nothing was
\* persisted, queued or delivered.
C38_Witness ==
    \E x \in DOMAIN sessions, y \in DOMAIN sessions :
        /\ x # y /\ sessions[x].roomId = sessions[y].roomId
        /\ \E k \in 1..Len(inbox[x]) : inbox[x][k].ev = "stt_error"
        /\ messages = <<>> /\ tasks = {}
        /\ DOMAIN offlineMessageQueues = {}
        /\ \A k \in 1..Len(inbox[y]) : inbox[y][k].ev # "new_message"

\* C39: the per-socket chunk buffer keeps arrival order and is empty after
\* every audio_chunk event that ends in an error and after every is-last
\* event: an accepted chunk that is not the last is appended; an event
\* answered with an error at once, an is-last event, and a handler that
\* ends in the catch block all leave the socket's buffer empty.
C39_BufferCleared ==
    [][/\ \A s \in FaultSockets, chunk \in AudioChunks, isLast \in BOOLEAN :
            (nextId' = nextId + 1 /\ AudioChunk(s, chunk, isLast, NULL)) =>
                IF Len(inbox'[s]) > Len(inbox[s])
                     /\ inbox'[s][Len(inbox'[s])].ev = "error"
                THEN audioBuffer'[s] = <<>>
                ELSE IF isLast THEN audioBuffer'[s] = <<>>
                ELSE audioBuffer'[s] = Append(audioBuffer[s], chunk)
       /\ \A t \in tasks :
            (/\ t.kind = "audio" /\ t \notin tasks'
             /\ \A u \in tasks' : u.id # t.id
             /\ Len(inbox'[t.sock]) > Len(inbox[t.sock])
             /\ inbox'[t.sock][Len(inbox'[t.sock])].ev = "error") =>
                audioBuffer'[t.sock] = <<>>]_vars

\* C40: a streamAudio call over a non-empty buffer of length L with chunk
\* size c ends, and when it has ended it has emitted exactly ceil(L / c)
\* frames, with index 0, 1, ..., total - 1 in this order, each with total =
\* ceil(L / c), is-last on the final frame only, every frame of at most c
\* bytes, and the decoded chunks joined in order are the buffer.
C40_StreamFrames ==
    /\ [](\A n \in 1..Len(callLog) :
            LET e == callLog[n] IN
            (e.kind = "streamAudio" /\ Len(e.buffer) > 0) =>
               LET L == Len(e.buffer)
                   c == e.chunkSize
                   total == IF L % c = 0 THEN L \div c ELSE (L \div c) + 1
                   bytes(k) == fromBase64(e.frames[k].chunk)
               IN /\ Len(e.frames) = total
                  /\ \A k \in 1..Len(e.frames) :
                        /\ e.frames[k].index = k - 1
                        /\ e.frames[k].total = total
                        /\ e.frames[k].isLast = (k = total)
                        /\ Len(bytes(k)) >= 1 /\ Len(bytes(k)) <= c
                        /\ \A j \in 1..Len(bytes(k)) :
                              bytes(k)[j] = e.buffer[(k - 1) * c + j]
                  /\ (total - 1) * c + Len(bytes(total)) = L)
    /\ \A i \in 1..MaxEvents :
          (\E t \in tasks : t.id = i /\ t.kind = "stream")
              ~> (\E n \in 1..Len(callLog) :
                     callLog[n].kind = "streamAudio" /\ callLog[n].id = i)

\* Reached: a finished call whose buffer does not divide evenly: several
\* frames, the last one shorter than the chunk size.
C40_Witness ==
    \E n \in 1..Len(callLog) :
        /\ callLog[n].kind = "streamAudio"
        /\ Len(callLog[n].buffer) = 3 /\ callLog[n].chunkSize = 2
        /\ Len(callLog[n].frames) = 2
        /\ callLog[n].frames[2].isLast

====
